---------------------------- MODULE Spec2Model ----------------------------
(***************************************************************************)
(* A model of collectd.py: the binary codec and its packet splitting, the  *)
(* Counter accumulator, the Connection registry and the Collector/Sender   *)
(* pipeline.                                                               *)
(*                                                                         *)
(* A text string is modelled run-length encoded: a sequence of runs        *)
(* <<ch, n>>, the character ch repeated n >= 1 times, adjacent runs having *)
(* different characters, so that equal strings are equal values.  An       *)
(* encoded message is a sequence of fields, each field carrying the number *)
(* of bytes struct.pack writes for it (nbytes) next to the length it       *)
(* declares on the wire (size).                                            *)
(*                                                                         *)
(* Specifications:                                                         *)
(*   SpecPack  one call of messages() on each of a set of inputs;          *)
(*   SpecSeq   the calls on one Connection and its Counters, each run      *)
(*             from its beginning to its end;                              *)
(*   SpecPipe  callers that record, the Collector and the Sender, one      *)
(*             whole cycle at a time;                                      *)
(*   SpecConn  threads that look Connections up and get their Counters,    *)
(*             one statement at a time;                                    *)
(*   SpecCtr   threads that call the methods of Counters, one cell at a    *)
(*             time;                                                       *)
(*   SpecSan   one call of sanitize() on each of a set of strings;         *)
(*   SpecSend  send_stats() called with either flag, on the empty queue    *)
(*             and on entries;                                             *)
(*   SpecStart threads that call start_threads(), and the daemon threads   *)
(*             it starts, one statement at a time;                         *)
(*   SpecDaemon  the daemon threads beside callers that create Connections *)
(*             and record;                                                 *)
(*   SpecLive  SpecDaemon under a fair scheduler;                          *)
(*   SpecLock  two callers that look a Connection up, get a Counter and    *)
(*             record, one statement at a time, beside the daemon threads; *)
(*   SpecLockLive  SpecLock under a fair scheduler.                        *)
(***************************************************************************)
EXTENDS Integers, Sequences, FiniteSets, TLC

VARIABLES
    \* -- codec: one call of messages() ----------------------------------
    pk_counts,      \* counts.items(): sequence of <<name, value>>, keys distinct
    pk_args,        \* [when, host, plugin_inst, plugin_name]
    struct_strict,  \* TRUE: struct.pack raises on overflow (2.7), FALSE: masks (2.6)
    pk_result,      \* [raised, packets] once the call has returned
    pk_pc,          \* "idle" | "call" | "done"
    \* -- the module's objects -------------------------------------------
    instances,      \* Connection.instances: identity tuple -> connection object
    conns,          \* the Connection objects ever made, by object number
    ctrs,           \* the Counter objects ever made, by object number
    locks,          \* the RLock objects ever made; lock 1 is Connection._lock
    snaps,          \* the queue snaps
    sock,           \* the sendto() calls made on sock, in order
    clock,          \* int(time.time())
    \* -- history, for the properties ------------------------------------
    due,            \* per Counter: derived name -> sum recorded since its last snapshot
    pure,           \* per Counter: only valid record() calls since its last snapshot
    ret,            \* per Counter: what its last snapshot() returned, and what was due
    deq,            \* the entries the Sender took off the queue, in order
    last_send,      \* the last Sender cycle: the entry it found (has), or its outcome
                    \* on the empty queue (empty)
    nops,           \* calls made by callers
    ncycles,        \* Collector cycles that found data
    caller,         \* the last record() or set_exact(): what its caller saw
    \* -- threads of callers, one statement at a time ----------------------
    th,             \* per thread: where it is (pc), its local variables
    looked,         \* [t, id, conn]: Connection(*id) returned conn to thread t
    given,          \* [conn, name, ctr]: conn.<name> returned Counter ctr
    inits,          \* <<conn, t>>: thread t ran the body of __init__ on conn
    \* -- the background tasks ---------------------------------------------
    single_start,   \* the value of the Semaphore single_start
    tasks,          \* the daemon threads ever started, in order
    starts,         \* the start_threads() calls that have ended, in order
    \* -- sanitize: one call on one input ----------------------------------
    sn_in,          \* [s, category, stat]
    sn_out,         \* [s, again, name] once the call has returned
    sn_pc           \* "idle" | "call" | "done"

packVars == <<pk_counts, pk_args, struct_strict, pk_result, pk_pc>>
objVars == <<instances, conns, ctrs, locks>>
pipeVars == <<snaps, sock, clock>>
histVars == <<due, pure, ret, deq, last_send, nops, ncycles>>
thrVars == <<th, looked, given, inits>>
sysVars == <<objVars, pipeVars, histVars, thrVars>>
sysVars_but_th == <<objVars, pipeVars, histVars, looked, given, inits>>
taskVars == <<single_start, tasks, starts>>
sanVars == <<sn_in, sn_out, sn_pc>>
auxVars == <<taskVars, sanVars, caller>>
vars == <<packVars, sysVars, auxVars>>

-----------------------------------------------------------------------------
(* Text strings.                                                           *)

\* runs made canonical: empty runs dropped, adjacent runs of one character merged
RECURSIVE Norm(_)
Norm(runs) ==
    IF runs = <<>> THEN <<>>
    ELSE LET rest == Norm(Tail(runs))
             r == Head(runs)
         IN IF r[2] = 0 THEN rest
            ELSE IF rest # <<>> /\ rest[1][1] = r[1]
                 THEN << <<r[1], r[2] + rest[1][2]>> >> \o Tail(rest)
                 ELSE <<r>> \o rest

\* the string with the given characters
Str(chars) == Norm([i \in 1..Len(chars) |-> <<chars[i], 1>>])

\* ch * n
Rep(ch, n) == Norm(<< <<ch, n>> >>)

\* len(s)
RECURSIVE StrLen(_)
StrLen(s) == IF s = <<>> THEN 0 ELSE Head(s)[2] + StrLen(Tail(s))

\* s + t
Cat(s, t) == Norm(s \o t)

Alnum ==
    { "a","b","c","d","e","f","g","h","i","j","k","l","m",
      "n","o","p","q","r","s","t","u","v","w","x","y","z",
      "A","B","C","D","E","F","G","H","I","J","K","L","M",
      "N","O","P","Q","R","S","T","U","V","W","X","Y","Z",
      "0","1","2","3","4","5","6","7","8","9" }

-----------------------------------------------------------------------------
(* Program constants.                                                      *)

SEND_INTERVAL == 10
MAX_PACKET_SIZE == 1024
PLUGIN_TYPE == Str(<<"g","a","u","g","e">>)

TYPE_HOST == 0
TYPE_TIME == 1
TYPE_PLUGIN == 2
TYPE_PLUGIN_INSTANCE == 3
TYPE_TYPE == 4
TYPE_TYPE_INSTANCE == 5
TYPE_VALUES == 6
TYPE_INTERVAL == 7
LONG_INT_CODES == {TYPE_TIME, TYPE_INTERVAL}
STRING_CODES == {TYPE_HOST, TYPE_PLUGIN, TYPE_PLUGIN_INSTANCE, TYPE_TYPE, TYPE_TYPE_INSTANCE}
VALUE_GAUGE == 1

\* struct format "H": an unsigned 16-bit integer
USHRT_MAX == 65535

-----------------------------------------------------------------------------
(* Codec.  A field is [code, size, nbytes, data]: size is the length the   *)
(* field declares in its header, nbytes the number of bytes packed.        *)

\* struct.pack("!HHq", type_code, 12, number): 2 + 2 + 8 bytes
pack_numeric(type_code, number) ==
    << [code |-> type_code, size |-> 12, nbytes |-> 2 + 2 + 8, data |-> <<number>>] >>

\* struct.pack("!HH", type_code, 5 + len(string)) + string + "\0".
\* The length is packed as "H"; where struct masks an overflow instead of
\* raising, the declared size wraps modulo 2^16.
pack_string(type_code, string) ==
    << [code |-> type_code, size |-> (5 + StrLen(string)) % (USHRT_MAX + 1),
        nbytes |-> 2 + 2 + StrLen(string) + 1, data |-> string] >>

\* struct.pack of the string field's length overflows format "H"
pack_string_overflows(string) == 5 + StrLen(string) > USHRT_MAX

\* pack(TYPE_TYPE_INSTANCE, name) + struct.pack("!HHH", TYPE_VALUES, 15, 1)
\*                                + struct.pack("<Bd", VALUE_GAUGE, value)
pack_value(name, value) ==
    pack_string(TYPE_TYPE_INSTANCE, name)
    \o << [code |-> TYPE_VALUES, size |-> 15, nbytes |-> (2 + 2 + 2) + (1 + 8),
           data |-> <<1, VALUE_GAUGE, value>>] >>

\* pack(id, value) with a string id is pack_value; with a type code it is
\* pack_numeric or pack_string.
pack(id, value) ==
    IF id \in LONG_INT_CODES THEN pack_numeric(id, value)
    ELSE pack_string(id, value)

\* len() of a packed byte string
RECURSIVE ByteLen(_)
ByteLen(fields) ==
    IF fields = <<>> THEN 0 ELSE Head(fields).nbytes + ByteLen(Tail(fields))

message_start(when, host, plugin_inst, plugin_name) ==
    pack(TYPE_HOST, host)
    \o pack(TYPE_TIME, when)
    \o pack(TYPE_PLUGIN, plugin_name)
    \o pack(TYPE_PLUGIN_INSTANCE, plugin_inst)
    \o pack(TYPE_TYPE, PLUGIN_TYPE)
    \o pack(TYPE_INTERVAL, SEND_INTERVAL)

\* Mutant of PackLoop: a buffer is closed as soon as the next part would
\* fill it, not only when the part would overflow it.
RECURSIVE PackLoop_EarlyFlush(_, _, _)
PackLoop_EarlyFlush(parts, start, st) ==
    IF parts = <<>> THEN st
    ELSE LET part == Head(parts)
             flush == st.curr_len + ByteLen(part) >= MAX_PACKET_SIZE
             packets1 == IF flush THEN Append(st.packets, st.curr) ELSE st.packets
             curr1 == IF flush THEN start ELSE st.curr
             len1 == IF flush THEN ByteLen(start) ELSE st.curr_len
         IN PackLoop_EarlyFlush(Tail(parts), start,
                     [packets |-> packets1, curr |-> curr1 \o part,
                      curr_len |-> len1 + ByteLen(part)])

\* The packing loop of messages(): st is [packets, curr, curr_len].
RECURSIVE PackLoop(_, _, _)
PackLoop(parts, start, st) ==
    IF parts = <<>> THEN st
    ELSE LET part == Head(parts)
             flush == st.curr_len + ByteLen(part) > MAX_PACKET_SIZE
             packets1 == IF flush THEN Append(st.packets, st.curr) ELSE st.packets
             curr1 == IF flush THEN start ELSE st.curr
             len1 == IF flush THEN ByteLen(start) ELSE st.curr_len
         IN PackLoop(Tail(parts), start,
                     [packets |-> packets1, curr |-> curr1 \o part,
                      curr_len |-> len1 + ByteLen(part)])

\* Mutant of FitParts: no part is filtered out.
FitParts_NoFilter(parts, start) == parts

\* The size filter of messages(): parts that fit beside the header
FitParts(parts, start) ==
    SelectSeq(parts, LAMBDA p : ByteLen(start) + ByteLen(p) <= MAX_PACKET_SIZE)

\* messages(counts, when, host, plugin_inst, plugin_name); counts is
\* counts.items().  The result is [raised, packets]: raised when a pack call
\* raises struct.error (strict) before any packet is built.
messages(counts, when, host, plugin_inst, plugin_name, strict) ==
    LET start == message_start(when, host, plugin_inst, plugin_name)
        overflow == pack_string_overflows(host) \/ pack_string_overflows(plugin_name)
                    \/ pack_string_overflows(plugin_inst)
                    \/ \E i \in 1..Len(counts) : pack_string_overflows(counts[i][1])
        parts0 == [i \in 1..Len(counts) |-> pack_value(counts[i][1], counts[i][2])]
        parts == FitParts(parts0, start)
        st == PackLoop(parts, start,
                       [packets |-> <<>>, curr |-> start, curr_len |-> ByteLen(start)])
    IN IF strict /\ overflow THEN [raised |-> TRUE, packets |-> <<>>]
       ELSE IF parts = <<>> THEN [raised |-> FALSE, packets |-> <<>>]
       ELSE [raised |-> FALSE, packets |-> Append(st.packets, st.curr)]

-----------------------------------------------------------------------------
(* sanitize() and the names Counter.snapshot derives.                      *)

IsAlnumRun(r) == r[1] \in Alnum

\* re.sub(r"[^a-zA-Z0-9]+", "_", s): every maximal run of characters that
\* are not alphanumeric becomes one "_"
re_sub(s) ==
    LET first == SelectSeq([i \in 1..Len(s) |-> i],
                           LAMBDA i : IsAlnumRun(s[i]) \/ i = 1 \/ IsAlnumRun(s[i - 1]))
    IN [j \in 1..Len(first) |->
          IF IsAlnumRun(s[first[j]]) THEN s[first[j]] ELSE <<"_", 1>>]

\* s.strip(ch)
strip(s, ch) ==
    LET a == IF s # <<>> /\ s[1][1] = ch THEN 2 ELSE 1
        b == IF s # <<>> /\ s[Len(s)][1] = ch THEN Len(s) - 1 ELSE Len(s)
    IN SubSeq(s, a, b)

\* Mutant of sanitize: the result is not stripped.
sanitize_NoStrip(s) == re_sub(s)

sanitize(s) == strip(re_sub(s), "_")

\* sep.join(parts)
RECURSIVE join(_, _)
join(sep, parts) ==
    IF parts = <<>> THEN <<>>
    ELSE IF Len(parts) = 1 THEN parts[1]
    ELSE Cat(Cat(parts[1], sep), join(sep, Tail(parts)))

\* s.replace("--", "-"): left to right, without overlap, so a run of k
\* dashes keeps (k + 1) div 2 of them
replace_dashes(s) ==
    [i \in 1..Len(s) |-> IF s[i][1] = "-" THEN <<"-", (s[i][2] + 1) \div 2>> ELSE s[i]]

\* the name snapshot() gives the cell (specific, stat) of a Counter
derived_name(category, specific, stat) ==
    replace_dashes(join(Str(<<"-">>),
                        <<sanitize(category), sanitize(specific), sanitize(stat)>>))

-----------------------------------------------------------------------------
(* Counter.  counts maps the cells (specific, stat) that were ever         *)
(* referenced to their values: the two-level defaultdict, flattened.  An   *)
(* argument is [ok, s]: a string s, or (ok = FALSE) a value that is not a  *)
(* string; a keyword argument is [stat, ok, v]: a number v, or a value     *)
(* that is not a number.  Values are integers.                             *)

EmptyCounts == [c \in {} |-> 0]

Unqualified == <<>>

\* self.counts[specific][stat] += value, on defaultdict(float)
AddCell(counts, cell, v) ==
    IF cell \in DOMAIN counts THEN [counts EXCEPT ![cell] = @ + v]
    ELSE [c \in DOMAIN counts \cup {cell} |-> IF c = cell THEN v ELSE counts[c]]

\* self.counts[""][stat] = value
SetCell(counts, cell, v) ==
    [c \in DOMAIN counts \cup {cell} |-> IF c = cell THEN v ELSE counts[c]]

\* the keyword arguments before the first one whose value is not a number
RECURSIVE ValidPrefix(_)
ValidPrefix(kwargs) ==
    IF kwargs = <<>> \/ ~Head(kwargs).ok THEN <<>>
    ELSE <<Head(kwargs)>> \o ValidPrefix(Tail(kwargs))

\* The cell updates record() applies, in order, before it ends or an
\* assertion fails: for each specific (arguments, then ""), the name is
\* checked and then each stat is checked and added.
RECURSIVE RecordPlanFrom(_, _)
RecordPlanFrom(specifics, kwargs) ==
    IF specifics = <<>> \/ ~Head(specifics).ok THEN <<>>
    ELSE LET good == ValidPrefix(kwargs)
             here == [j \in 1..Len(good) |->
                        [cell |-> <<Head(specifics).s, good[j].stat>>, v |-> good[j].v]]
         IN IF Len(good) < Len(kwargs) THEN here
            ELSE here \o RecordPlanFrom(Tail(specifics), kwargs)

\* Mutant of RecordPlan: the unqualified name is not added to the
\* specifics.
RecordPlan_NoUnqualified(args, kwargs) == RecordPlanFrom(args, kwargs)

RecordPlan(args, kwargs) ==
    RecordPlanFrom(args \o <<[ok |-> TRUE, s |-> Unqualified]>>, kwargs)

\* record() ends in an AssertionError (which swallow_errors swallows)
RecordRaises(args, kwargs) ==
    \/ \E i \in 1..Len(args) : ~args[i].ok
    \/ \E j \in 1..Len(kwargs) : ~kwargs[j].ok

\* The cell updates set_exact() applies before it ends or an assertion fails
SetExactPlan(kwargs) ==
    LET good == ValidPrefix(kwargs)
    IN [j \in 1..Len(good) |-> [cell |-> <<Unqualified, good[j].stat>>, v |-> good[j].v]]

RECURSIVE ApplyAdds(_, _)
ApplyAdds(counts, plan) ==
    IF plan = <<>> THEN counts
    ELSE ApplyAdds(AddCell(counts, Head(plan).cell, Head(plan).v), Tail(plan))

RECURSIVE ApplySets(_, _)
ApplySets(counts, plan) ==
    IF plan = <<>> THEN counts
    ELSE ApplySets(SetCell(counts, Head(plan).cell, Head(plan).v), Tail(plan))

\* Mutant of swallow_errors: what the function raises reaches the caller.
swallow_errors_Reraise(raised) == raised

\* swallow_errors(func): whether the wrapped call raises, func raising or
\* not (except: logger.error(...), itself inside try/except: pass)
swallow_errors(raised) == FALSE

\* Counter.record(*args, **kwargs): the counts it leaves
Counter_record(counts, args, kwargs) == ApplyAdds(counts, RecordPlan(args, kwargs))

\* Counter.set_exact(**kwargs): the counts it leaves
Counter_set_exact(counts, kwargs) == ApplySets(counts, SetExactPlan(kwargs))

\* The orders in which snapshot() can visit the cells: the specifics in the
\* order of the outer dict, and under each its stats in the order of the
\* inner dict.  An order is a sequence of the cells.
SeqsOf(S) ==
    { q \in [1..Cardinality(S) -> S] : \A i, j \in 1..Cardinality(S) : q[i] = q[j] => i = j }

CellOrders(counts) ==
    { q \in SeqsOf(DOMAIN counts) :
        \A i, j, k \in 1..Len(q) : (i < j /\ j < k /\ q[i][1] = q[k][1]) => q[j][1] = q[i][1] }

\* the derived name of every cell
CellNames(category, counts) ==
    { [cell |-> c, name |-> derived_name(category, c[1], c[2])] : c \in DOMAIN counts }

\* totals after the cells were visited in order q: a later cell of the same
\* derived name replaces an earlier one (totals[name] = counts[stat])
SnapshotTotals(named, counts, q) ==
    LET name(i) == (CHOOSE p \in named : p.cell = q[i]).name
        last(n) == CHOOSE i \in 1..Len(q) :
                      name(i) = n /\ \A j \in 1..Len(q) : name(j) = n => j <= i
    IN [n \in { p.name : p \in named } |-> counts[q[last(n)]]]

\* Mutant of Counter_snapshot: the cells that hold 0 are left out.
Counter_snapshot_NonZero(category, counts) ==
    LET held == [c \in { c \in DOMAIN counts : counts[c] # 0 } |-> counts[c]]
        named == CellNames(category, held)
    IN { SnapshotTotals(named, held, q) : q \in CellOrders(held) }

\* Counter.snapshot(): the mappings it can return
Counter_snapshot(category, counts) ==
    LET named == CellNames(category, counts)
    IN { SnapshotTotals(named, counts, q) : q \in CellOrders(counts) }

\* ... and the counts it leaves: counts[stat] = 0.0 for every cell
ResetCounts(counts) == [c \in DOMAIN counts |-> 0]

-----------------------------------------------------------------------------
(* Connection and the registry.  A Connection object is                    *)
(* [id, attrs, lock, counters, plugin_inst, plugin_name, hostname,         *)
(* collectd_addr]: attrs is the set of attributes __init__ has set so far  *)
(* (the object's __dict__); an attribute not in attrs holds no value yet.  *)

NoEntries == [n \in {} |-> 0]

Range(f) == { f[x] : x \in DOMAIN f }

\* object.__new__(cls): an object with an empty __dict__
BareConn(id) ==
    [id |-> id, attrs |-> {}, lock |-> 0, counters |-> NoEntries,
     plugin_inst |-> <<>>, plugin_name |-> <<>>, hostname |-> <<>>,
     collectd_addr |-> <<>>]

\* the four last assignments of Connection.__init__
InitRest(conn) ==
    [conn EXCEPT !.attrs = @ \cup {"_plugin_inst", "_plugin_name", "_hostname",
                                   "_collectd_addr"},
                 !.plugin_inst = conn.id.plugin_inst,
                 !.plugin_name = conn.id.plugin_name,
                 !.hostname = conn.id.hostname,
                 !.collectd_addr = <<conn.id.collectd_host, conn.id.collectd_port>>]

\* Connection.__init__ run to its end on a new object, lock being the
\* RLock it makes
InitConn(conn, lock) ==
    InitRest([conn EXCEPT !.attrs = @ \cup {"_lock", "_counters"},
                          !.lock = lock, !.counters = NoEntries])

NoThread == 0

FreeLock == [owner |-> NoThread, depth |-> 0]

\* Counter(category), lock being the RLock it makes
NewCounter(category, lock) ==
    [category |-> category, lock |-> lock, counts |-> EmptyCounts]

\* name.startswith("_")
StartsWithUnderscore(name) == name # <<>> /\ name[1][1] = "_"

\* Mutant of LiveCounters: a Counter with no cell is snapshotted too.
LiveCounters_All(conn) == Range(conn.counters)

\* the Counter objects of a Connection whose counts are not empty
\* (c for c in self._counters.values() if c.counts)
LiveCounters(conn) == { k \in Range(conn.counters) : DOMAIN ctrs[k].counts # {} }

\* what the snapshot() calls of the Counters in S can return, as mappings
\* from each Counter to its snapshot
RECURSIVE Picks(_)
Picks(S) ==
    IF S = {} THEN { NoEntries }
    ELSE LET k == CHOOSE x \in S : TRUE
         IN { [x \in S |-> IF x = k THEN totals ELSE rest[x]] :
                totals \in Counter_snapshot(ctrs[k].category, ctrs[k].counts),
                rest \in Picks(S \ {k}) }

\* stats after stats.update(snapshot) for the counters in order q, pick[k]
\* being the snapshot of counter k: a later counter replaces an earlier one
MergeSnapshots(q, pick) ==
    LET has(i, n) == n \in DOMAIN pick[q[i]]
        names == UNION { DOMAIN pick[q[i]] : i \in 1..Len(q) }
        last(n) == CHOOSE i \in 1..Len(q) :
                      has(i, n) /\ \A j \in 1..Len(q) : has(j, n) => j <= i
    IN [n \in names |-> pick[q[last(n)]][n]]

\* Connection._snapshot() merged by take_snapshots(): the mappings stats
\* can be for a connection with live counters
MergedStats(conn) ==
    { MergeSnapshots(q, pick) : q \in SeqsOf(LiveCounters(conn)),
                                pick \in Picks(LiveCounters(conn)) }

-----------------------------------------------------------------------------
(* Initial states and the inputs of the calls.                             *)

\* no record() or set_exact() has returned yet
NoCall == [op |-> "none", raised |-> FALSE]

NoSend ==
    [has |-> FALSE, entry |-> [g_seq |-> 0], sent |-> <<>>, raised |-> FALSE, qlen |-> 0,
     empty |-> FALSE]

InitObjects ==
    /\ instances = NoEntries
    /\ conns = <<>>
    /\ ctrs = <<>>
    /\ locks = <<FreeLock>>

InitPipe ==
    /\ snaps = <<>>
    /\ sock = <<>>
    /\ clock = 1

NumThreads == 2

Threads == 1..NumThreads

\* a thread that is in no call and holds no Connection
Idle == [pc |-> "idle", conn |-> 0]

InitThreads ==
    /\ th = [t \in Threads |-> Idle]
    /\ looked = {}
    /\ given = {}
    /\ inits = {}

InitHist ==
    /\ due = <<>>
    /\ pure = <<>>
    /\ ret = <<>>
    /\ deq = <<>>
    /\ last_send = NoSend
    /\ nops = 0
    /\ ncycles = 0
    /\ caller = NoCall

\* the Semaphore has its initial value 1 and no daemon thread was started
InitTasks ==
    /\ single_start = 1
    /\ tasks = <<>>
    /\ starts = <<>>

NoSanitized == [s |-> <<>>, again |-> <<>>, name |-> <<>>]

\* no call of sanitize() of its own
IdleSan ==
    /\ sn_in = [s |-> <<>>, category |-> <<>>, stat |-> <<>>]
    /\ sn_out = NoSanitized
    /\ sn_pc = "idle"

\* no call of messages() of its own; no string of the other specifications
\* is long enough for struct.pack to overflow, so one struct serves
IdlePack ==
    /\ pk_counts = <<>>
    /\ pk_args = [when |-> 1, host |-> <<>>, plugin_inst |-> <<>>, plugin_name |-> <<>>]
    /\ struct_strict = TRUE
    /\ pk_result = [raised |-> FALSE, packets |-> <<>>]
    /\ pk_pc = "idle"

\* identity tuples: the second differs from the first in the port alone
Id1 ==
    [hostname |-> Str(<<"h">>), collectd_host |-> Str(<<"l">>), collectd_port |-> 25826,
     plugin_inst |-> <<>>, plugin_name |-> Str(<<"a","n","y">>)]

Id2 == [Id1 EXCEPT !.collectd_port = 1337]

\* the third differs from the first in the plugin instance alone
Id3 == [Id1 EXCEPT !.plugin_inst = Str(<<"i">>)]

ConnIds == {Id1, Id2}

LookupIds == {Id1, Id2, Id3}

\* counter names: a short one, one long enough that two stats under it do
\* not fit in one packet, and a private attribute name
LongNameLen == MAX_PACKET_SIZE \div 2

CounterNames == { Str(<<"t">>), Rep("X", LongNameLen), Str(<<"_","p">>) }

StrArg(chars) == [ok |-> TRUE, s |-> Str(chars)]

NotAString == [ok |-> FALSE, s |-> <<>>]

Kw(chars, v) == [stat |-> Str(chars), ok |-> TRUE, v |-> v]

NotANumber(chars) == [stat |-> Str(chars), ok |-> FALSE, v |-> 0]

\* record(*args): no specific, one, one that is empty once sanitized, two,
\* a value that is not a string, and such a value after a specific
ArgsMenu ==
    { <<>>, <<StrArg(<<"s">>)>>, <<StrArg(<<"!">>)>>,
      <<StrArg(<<"s">>), StrArg(<<"!">>)>>, <<NotAString>>,
      <<StrArg(<<"s">>), NotAString>> }

\* **kwargs, as kwargs.items(): "f" and "f!" sanitize to the same name
KwargsMenu ==
    { <<Kw(<<"f">>, 1)>>,
      <<Kw(<<"f">>, 1), Kw(<<"f","!">>, 2)>>,
      <<Kw(<<"g">>, 1), NotANumber(<<"f">>)>>,
      <<NotANumber(<<"f">>), Kw(<<"g">>, 1)>> }

MaxOps == 3
MaxCounters == 2
MaxCells == 3
MaxCycles == 2
MaxClock == 2

\* the Connection objects in the registry
Registered == Range(instances)

\* the Connection that holds Counter k
OwnerOf(k) == CHOOSE o \in 1..Len(conns) : k \in Range(conns[o].counters)

\* the cells of all the Counters of Connection o
RECURSIVE SumOver(_, _)
SumOver(S, f) ==
    IF S = {} THEN 0
    ELSE LET x == CHOOSE y \in S : TRUE IN f[x] + SumOver(S \ {x}, f)

CellsOfConn(o, cs) ==
    SumOver(Range(conns[o].counters), [k \in 1..Len(cs) |-> Cardinality(DOMAIN cs[k].counts)])

-----------------------------------------------------------------------------
(* History kept for the properties.                                        *)

\* after a call that raises or a set_exact(): the derived names of the cells
\* it touched are known to the Counter
DueNamed(d, category, plan) ==
    LET names == { derived_name(category, plan[i].cell[1], plan[i].cell[2])
                     : i \in 1..Len(plan) }
    IN [n \in DOMAIN d \cup names |-> IF n \in DOMAIN d THEN d[n] ELSE 0]

\* the sum, name by name, of what is due to the Counters in S
DueMerged(S) ==
    LET names == UNION { DOMAIN due[k] : k \in S }
    IN [n \in names |->
          SumOver({ k \in S : n \in DOMAIN due[k] }, [k \in 1..Len(due) |->
                     IF n \in DOMAIN due[k] THEN due[k][n] ELSE 0])]

-----------------------------------------------------------------------------
(* Specification SpecPack: messages() applied to bounded inputs.           *)

MaxStats == 3

PackLetters == <<"X", "Y", "Z", "W", "V", "U">>

\* name lengths: a short name, one of two that fill a packet exactly beside
\* the shortest header (52 bytes), half a packet, the longest that fits, the
\* shortest that does not, a packet's size, and the shortest whose length
\* overflows "H"
PackLens ==
    { 1,
      (MAX_PACKET_SIZE - 52) \div 2 - 20,
      MAX_PACKET_SIZE \div 2,
      MAX_PACKET_SIZE - 52 - 20,
      MAX_PACKET_SIZE - 52 - 20 + 1,
      MAX_PACKET_SIZE,
      USHRT_MAX - 4 }

PackArgs ==
    { [when |-> 1, host |-> <<>>, plugin_inst |-> <<>>,
       plugin_name |-> Str(<<"a","n","y">>)],
      [when |-> 2, host |-> Str(<<"h","o","s","t">>),
       plugin_inst |-> Str(<<"x","k","c","d">>), plugin_name |-> Str(<<"d","c","k","x">>)],
      [when |-> 1, host |-> Rep("h", MAX_PACKET_SIZE - 60), plugin_inst |-> <<>>,
       plugin_name |-> Str(<<"a","n","y">>)] }

\* the i-th entry of the map is named with the i-th letter: keys are distinct
PackInputs ==
    UNION { [1..n -> PackLens] : n \in 0..MaxStats }

InitPack ==
    /\ \E lens \in PackInputs :
         pk_counts = [i \in 1..Len(lens) |-> <<Rep(PackLetters[i], lens[i]), i>>]
    /\ pk_args \in PackArgs
    /\ struct_strict \in BOOLEAN
    /\ pk_result = [raised |-> FALSE, packets |-> <<>>]
    /\ pk_pc = "call"
    /\ InitObjects /\ InitPipe /\ InitHist /\ InitThreads /\ InitTasks /\ IdleSan

PackMessages ==
    /\ pk_pc = "call"
    /\ pk_result' = messages(pk_counts, pk_args.when, pk_args.host,
                             pk_args.plugin_inst, pk_args.plugin_name, struct_strict)
    /\ pk_pc' = "done"
    /\ UNCHANGED <<pk_counts, pk_args, struct_strict, sysVars, auxVars>>

NextPack == PackMessages

SpecPack == InitPack /\ [][NextPack]_vars

-----------------------------------------------------------------------------
(* Specification SpecSan: sanitize() and the name derived for an           *)
(* unqualified cell, applied to bounded inputs.                            *)

MaxSanLen == 5

\* a lower-case letter, an upper-case letter, a digit, the underscore, the
\* separator of derived names, and another character that is not
\* alphanumeric
SanAlphabet == {"a", "Z", "7", "_", "-", "!"}

SanStrings == UNION { [1..n -> SanAlphabet] : n \in 0..MaxSanLen }

\* a category and a stat name: plain ones, ones that are empty once
\* sanitized, and ones with characters to replace at both ends
SanNames ==
    { [category |-> Str(<<"t">>), stat |-> Str(<<"f">>)],
      [category |-> Str(<<"!">>), stat |-> Str(<<"_","-">>)],
      [category |-> Str(<<"-","f","-","g","_">>), stat |-> Str(<<"!","f","!","!","g">>)] }

InitSan ==
    /\ \E chars \in SanStrings, of \in SanNames :
          sn_in = [s |-> Str(chars), category |-> of.category, stat |-> of.stat]
    /\ sn_out = NoSanitized
    /\ sn_pc = "call"
    /\ IdlePack /\ InitObjects /\ InitPipe /\ InitHist /\ InitThreads /\ InitTasks

\* sanitize(s), sanitize of its result, and the name snapshot() derives
\* for the cell ("", stat) of a Counter of the category
Sanitize ==
    /\ sn_pc = "call"
    /\ sn_out' = [s |-> sanitize(sn_in.s),
                  again |-> sanitize(sanitize(sn_in.s)),
                  name |-> derived_name(sn_in.category, Unqualified, sn_in.stat)]
    /\ sn_pc' = "done"
    /\ UNCHANGED <<packVars, sysVars, taskVars, caller, sn_in>>

NextSan == Sanitize

SpecSan == InitSan /\ [][NextSan]_vars

-----------------------------------------------------------------------------
(* Specification SpecSeq: the calls of the module, each run from its       *)
(* beginning to its end (one caller at a time).                            *)

NoRet == [has |-> FALSE, totals |-> NoEntries, due |-> NoEntries, pure |-> TRUE]

\* every value a valid record(*args, **kwargs) call records, each under
\* the derived name of (specific, stat), for the specifics given and ""
RecordedBy(category, args, kwargs) ==
    LET specifics == [i \in 1..Len(args) |-> args[i].s] \o <<Unqualified>>
        m == Len(kwargs)
    IN [x \in 1..(Len(specifics) * m) |->
          [cell |-> derived_name(category, specifics[((x - 1) \div m) + 1],
                                 kwargs[((x - 1) % m) + 1].stat),
           v |-> kwargs[((x - 1) % m) + 1].v]]

\* Connection(hostname, collectd_host, collectd_port, plugin_inst,
\* plugin_name): __new__, then __init__
Connect(id) ==
    /\ IF id \in DOMAIN instances
       THEN UNCHANGED objVars
       ELSE /\ locks' = Append(locks, FreeLock)
            /\ conns' = Append(conns, InitConn(BareConn(id), Len(locks) + 1))
            /\ instances' = [i \in DOMAIN instances \cup {id} |->
                                IF i = id THEN Len(conns) + 1 ELSE instances[i]]
            /\ UNCHANGED ctrs
    /\ UNCHANGED <<packVars, auxVars, pipeVars, histVars, thrVars>>

\* conn.<name>: Connection.__getattr__
GetAttr(o, name) ==
    /\ o \in 1..Len(conns)
    /\ IF StartsWithUnderscore(name) \/ name \in DOMAIN conns[o].counters
       THEN UNCHANGED <<objVars, due, pure, ret>>
       ELSE /\ Len(ctrs) < MaxCounters
            /\ locks' = Append(locks, FreeLock)
            /\ ctrs' = Append(ctrs, NewCounter(name, Len(locks) + 1))
            /\ conns' = [conns EXCEPT ![o].counters =
                            [n \in DOMAIN @ \cup {name} |->
                               IF n = name THEN Len(ctrs) + 1 ELSE @[n]]]
            /\ due' = Append(due, NoEntries)
            /\ pure' = Append(pure, TRUE)
            /\ ret' = Append(ret, NoRet)
            /\ UNCHANGED instances
    /\ UNCHANGED <<packVars, auxVars, pipeVars, deq, last_send, nops, ncycles, thrVars>>

\* counter.record(*args, **kwargs)
Record(k, args, kwargs) ==
    /\ k \in 1..Len(ctrs)
    /\ nops < MaxOps
    /\ LET ctrs1 == [ctrs EXCEPT ![k].counts = Counter_record(@, args, kwargs)]
       IN /\ CellsOfConn(OwnerOf(k), ctrs1) <= MaxCells
          /\ ctrs' = ctrs1
    /\ due' = [due EXCEPT ![k] =
                 IF RecordRaises(args, kwargs)
                 THEN DueNamed(@, ctrs[k].category, RecordPlan(args, kwargs))
                 ELSE ApplyAdds(@, RecordedBy(ctrs[k].category, args, kwargs))]
    /\ pure' = [pure EXCEPT ![k] = @ /\ ~RecordRaises(args, kwargs)]
    /\ nops' = nops + 1
    /\ caller' = [op |-> "record", raised |-> swallow_errors(RecordRaises(args, kwargs))]
    /\ UNCHANGED <<packVars, taskVars, sanVars, instances, conns, locks, pipeVars, ret, deq, last_send, ncycles, thrVars>>

\* counter.set_exact(**kwargs)
SetExact(k, kwargs) ==
    /\ k \in 1..Len(ctrs)
    /\ nops < MaxOps
    /\ LET ctrs1 == [ctrs EXCEPT ![k].counts = Counter_set_exact(@, kwargs)]
       IN /\ CellsOfConn(OwnerOf(k), ctrs1) <= MaxCells
          /\ ctrs' = ctrs1
    /\ due' = [due EXCEPT ![k] = DueNamed(@, ctrs[k].category, SetExactPlan(kwargs))]
    /\ pure' = [pure EXCEPT ![k] = FALSE]
    /\ nops' = nops + 1
    /\ caller' = [op |-> "set_exact",
                  raised |-> swallow_errors(\E j \in 1..Len(kwargs) : ~kwargs[j].ok)]
    /\ UNCHANGED <<packVars, taskVars, sanVars, instances, conns, locks, pipeVars, ret, deq, last_send, ncycles, thrVars>>

\* counter.snapshot(), called by a caller
Snapshot(k) ==
    /\ k \in 1..Len(ctrs)
    /\ nops < MaxOps
    /\ \E totals \in Counter_snapshot(ctrs[k].category, ctrs[k].counts) :
         ret' = [ret EXCEPT ![k] =
                   [has |-> TRUE, totals |-> totals, due |-> due[k], pure |-> pure[k]]]
    /\ ctrs' = [ctrs EXCEPT ![k].counts = ResetCounts(@)]
    /\ due' = [due EXCEPT ![k] = [n \in DOMAIN @ |-> 0]]
    /\ pure' = [pure EXCEPT ![k] = TRUE]
    /\ nops' = nops + 1
    /\ UNCHANGED <<packVars, auxVars, instances, conns, locks, pipeVars, deq, last_send, ncycles, thrVars>>

\* Queue.put(item): the item joins the queue at its tail
Queue_put(queue, items) == queue \o items

\* Mutant of Queue_get: the newest item is taken.
Queue_get_Newest(queue) ==
    [item |-> queue[Len(queue)], rest |-> SubSeq(queue, 1, Len(queue) - 1)]

\* Queue.get(): the oldest item is taken
Queue_get(queue) == [item |-> Head(queue), rest |-> Tail(queue)]

\* what int(time.time()) can return in n successive calls, the last call
\* before them having returned clock
Times(n) ==
    { f \in [1..n -> clock..MaxClock] : \A i, j \in 1..n : i <= j => f[i] <= f[j] }

\* One Collector cycle: take_snapshots().  order is the order of
\* Connection.instances.values(), pick[k] the mapping Counter k's
\* snapshot() returns, stats[o] the merged mapping of Connection o, now[i]
\* the time of the i-th put.  ncycles counts the cycles that found data.
TakeSnapshots ==
    /\ ncycles < MaxCycles
    /\ \E live \in { UNION { LiveCounters(conns[o]) : o \in Registered } } :
       \E order \in SeqsOf(Registered) :
       \E pick \in Picks(live) :
       \E put \in { SelectSeq(order, LAMBDA o : LiveCounters(conns[o]) # {}) } :
       \E now \in Times(Len(put)) :
       \E stats \in { f \in [Range(put) -> UNION { MergedStats(conns[o]) : o \in Range(put) }] :
                        \A o \in Range(put) :
                           \E q \in SeqsOf(LiveCounters(conns[o])) :
                              f[o] = MergeSnapshots(q, pick) } :
         /\ snaps' = Queue_put(snaps,
               [i \in 1..Len(put) |->
                  [when |-> now[i], stats |-> stats[put[i]], conn |-> put[i],
                   g_seq |-> Len(deq) + Len(snaps) + i,
                   g_due |-> DueMerged(Range(conns[put[i]].counters)),
                   g_pure |-> \A k \in Range(conns[put[i]].counters) : pure[k],
                   g_cells |-> CellsOfConn(put[i], ctrs),
                   g_solo |-> snaps = <<>> /\ Len(put) = 1]])
         /\ clock' = IF put = <<>> THEN clock ELSE now[Len(put)]
         /\ ncycles' = IF put = <<>> THEN ncycles ELSE ncycles + 1
         /\ ctrs' = [k \in 1..Len(ctrs) |->
                       IF k \in live THEN [ctrs[k] EXCEPT !.counts = ResetCounts(@)]
                       ELSE ctrs[k]]
         /\ due' = [k \in 1..Len(due) |->
                      IF k \in live THEN [n \in DOMAIN due[k] |-> 0] ELSE due[k]]
         /\ pure' = [k \in 1..Len(pure) |-> k \in live \/ pure[k]]
    /\ UNCHANGED <<packVars, auxVars, instances, conns, locks, sock, ret, deq, last_send, nops, thrVars>>

\* the attributes send_stats() reads of the entry's Connection
SendAttrs == {"_hostname", "_plugin_inst", "_plugin_name", "_collectd_addr"}

\* what send_stats() sends for the entry e when stats.items() has the
\* order q: the buffers of messages(), each to the Connection's address
Sent(e, q) ==
    LET c == conns[e.conn]
        r == IF SendAttrs \subseteq c.attrs
             THEN messages([i \in 1..Len(q) |-> <<q[i], e.stats[q[i]]>>],
                           e.when, c.hostname, c.plugin_inst, c.plugin_name,
                           struct_strict)
             ELSE [raised |-> TRUE, packets |-> <<>>]
    IN [raised |-> r.raised,
        out |-> [i \in 1..Len(r.packets) |->
                   [data |-> r.packets[i], addr |-> c.collectd_addr, g_seq |-> e.g_seq]]]

\* Mutant of OnEmpty: Empty is raised again whatever the flag.
OnEmpty_Raise(raise_on_empty) == TRUE

\* except Empty: if raise_on_empty: raise -- whether send_stats() raises
\* when snaps.get() timed out
OnEmpty(raise_on_empty) == raise_on_empty

\* One Sender cycle: send_stats(raise_on_empty)
SendStats(raise_on_empty) ==
    IF snaps = <<>>
    THEN /\ last_send' = [NoSend EXCEPT !.empty = TRUE, !.raised = OnEmpty(raise_on_empty)]
         /\ UNCHANGED <<packVars, auxVars, objVars, pipeVars, due, pure, ret, deq, nops,
                        ncycles, thrVars>>
    ELSE \E got \in { Queue_get(snaps) } :
         \E e \in { got.item } :
         \E q \in SeqsOf(DOMAIN e.stats) :
         \E r \in { Sent(e, q) } :
           /\ snaps' = got.rest
           /\ sock' = sock \o r.out
           /\ deq' = Append(deq, e.g_seq)
           /\ last_send' = [has |-> TRUE, entry |-> e, sent |-> r.out,
                            raised |-> r.raised, qlen |-> Len(snaps) - 1,
                            empty |-> FALSE]
           /\ UNCHANGED <<packVars, auxVars, objVars, clock, due, pure, ret, nops, ncycles, thrVars>>

InitSeq ==
    IdlePack /\ InitObjects /\ InitPipe /\ InitHist /\ InitThreads /\ InitTasks /\ IdleSan

\* the calls on the Counters of one Connection
NextSeq ==
    \/ Connect(Id1)
    \/ \E o \in 1..Len(conns), name \in CounterNames : GetAttr(o, name)
    \/ \E k \in 1..Len(ctrs), args \in ArgsMenu, kwargs \in KwargsMenu : Record(k, args, kwargs)
    \/ \E k \in 1..Len(ctrs), kwargs \in KwargsMenu : SetExact(k, kwargs)
    \/ \E k \in 1..Len(ctrs) : Snapshot(k)

SpecSeq == InitSeq /\ [][NextSeq]_vars

-----------------------------------------------------------------------------
(* Specification SpecPipe: callers that record, the Collector and the      *)
(* Sender, one whole cycle at a time.                                      *)

MaxPipeOps == 2

\* the record() calls of the callers: one of one stat, one that records
\* under two names, and one whose two stats sanitize to the same name
PipeCalls ==
    { [args |-> <<>>, kwargs |-> <<Kw(<<"f">>, 1)>>],
      [args |-> <<StrArg(<<"s">>)>>, kwargs |-> <<Kw(<<"f">>, 1)>>],
      [args |-> <<>>, kwargs |-> <<Kw(<<"f">>, 1), Kw(<<"f","!">>, 2)>>] }

NextPipe ==
    \/ \E id \in ConnIds : Connect(id)
    \/ \E o \in 1..Len(conns), name \in CounterNames : GetAttr(o, name)
    \/ \E k \in 1..Len(ctrs), call \in PipeCalls :
          nops < MaxPipeOps /\ Record(k, call.args, call.kwargs)
    \/ TakeSnapshots
    \/ snaps # <<>> /\ SendStats(FALSE)

SpecPipe == InitSeq /\ [][NextPipe]_vars

\* Specification SpecSend: send_stats() called with either flag, on the
\* empty queue and on entries of one Connection, one of them with a name
\* that makes messages() raise.
SendNames == { Str(<<"t">>), Rep("X", USHRT_MAX - 4) }

NextSend ==
    \/ Connect(Id1)
    \/ \E o \in 1..Len(conns), name \in SendNames : GetAttr(o, name)
    \/ \E k \in 1..Len(ctrs), call \in PipeCalls :
          nops < MaxPipeOps /\ Record(k, call.args, call.kwargs)
    \/ TakeSnapshots
    \/ \E raise_on_empty \in BOOLEAN : SendStats(raise_on_empty)

SpecSend == InitSeq /\ [][NextSend]_vars

-----------------------------------------------------------------------------
(* Threads.  A call made by a thread runs one statement at a time, and     *)
(* the statements of different threads interleave.                         *)

\* Mutant of CanAcquire: the lock excludes nobody.
CanAcquire_Always(lock, t) == TRUE

\* with self._lock: an RLock is acquired by a thread when it is free or
\* the thread owns it already
CanAcquire(lock, t) == lock.owner \in {NoThread, t}

Acquired(lock, t) == [owner |-> t, depth |-> lock.depth + 1]

\* leaving the with block
Released(lock) == IF lock.depth <= 1 THEN FreeLock ELSE [lock EXCEPT !.depth = @ - 1]

\* self._lock of a Connection object: the instance attribute once
\* __init__ has set it, the class attribute Connection._lock before
SelfLock(conn) == IF "_lock" \in conn.attrs THEN conn.lock ELSE 1

MaxConnOps == 3

\* Connection(*id): synchronized enters __new__ under Connection._lock
NewEnter(t, id) ==
    /\ th[t].pc = "idle"
    /\ nops < MaxConnOps
    /\ CanAcquire(locks[1], t)
    /\ locks' = [locks EXCEPT ![1] = Acquired(@, t)]
    /\ th' = [th EXCEPT ![t] = [pc |-> "new", conn |-> @.conn, id |-> id]]
    /\ nops' = nops + 1
    /\ UNCHANGED <<packVars, auxVars, instances, conns, ctrs, pipeVars, due, pure, ret, deq,
                   last_send, ncycles, looked, given, inits>>

\* if id in cls.instances: return cls.instances[id]
NewCheck(t) ==
    /\ th[t].pc = "new"
    /\ th' = [th EXCEPT ![t] =
                IF @.id \in DOMAIN instances
                THEN [pc |-> "new_return", conn |-> @.conn, id |-> @.id,
                      inst |-> instances[@.id]]
                ELSE [pc |-> "new_insert", conn |-> @.conn, id |-> @.id]]
    /\ UNCHANGED <<packVars, auxVars, objVars, pipeVars, histVars, looked, given, inits>>

\* inst = object.__new__(cls); cls.instances[id] = inst
NewInsert(t) ==
    /\ th[t].pc = "new_insert"
    /\ conns' = Append(conns, BareConn(th[t].id))
    /\ instances' = [i \in DOMAIN instances \cup {th[t].id} |->
                       IF i = th[t].id THEN Len(conns) + 1 ELSE instances[i]]
    /\ th' = [th EXCEPT ![t] = [pc |-> "new_return", conn |-> @.conn, id |-> @.id,
                                inst |-> Len(conns) + 1]]
    /\ UNCHANGED <<packVars, auxVars, ctrs, locks, pipeVars, histVars, looked, given, inits>>

\* __new__ returns, Connection._lock is released, and __init__ is called
\* on what it returned
NewReturn(t) ==
    /\ th[t].pc = "new_return"
    /\ locks' = [locks EXCEPT ![1] = Released(@)]
    /\ looked' = looked \cup {[t |-> t, id |-> th[t].id, conn |-> th[t].inst]}
    /\ th' = [th EXCEPT ![t] = [pc |-> "init", conn |-> @.inst]]
    /\ UNCHANGED <<packVars, auxVars, instances, conns, ctrs, pipeVars, histVars, given, inits>>

\* __init__: if "_counters" not in self.__dict__
InitCheck(t) ==
    /\ th[t].pc = "init"
    /\ IF "_counters" \in conns[th[t].conn].attrs
       THEN /\ th' = [th EXCEPT ![t].pc = "idle"]
            /\ UNCHANGED inits
       ELSE /\ th' = [th EXCEPT ![t].pc = "init_lock"]
            /\ inits' = inits \cup {<<th[t].conn, t>>}
    /\ UNCHANGED <<packVars, auxVars, objVars, pipeVars, histVars, looked, given>>

\* self._lock = RLock()
InitLock(t) ==
    /\ th[t].pc = "init_lock"
    /\ locks' = Append(locks, FreeLock)
    /\ conns' = [conns EXCEPT ![th[t].conn] =
                   [@ EXCEPT !.attrs = @ \cup {"_lock"}, !.lock = Len(locks) + 1]]
    /\ th' = [th EXCEPT ![t].pc = "init_counters"]
    /\ UNCHANGED <<packVars, auxVars, instances, ctrs, pipeVars, histVars, looked, given, inits>>

\* self._counters = {}
InitCounters(t) ==
    /\ th[t].pc = "init_counters"
    /\ conns' = [conns EXCEPT ![th[t].conn] =
                   [@ EXCEPT !.attrs = @ \cup {"_counters"}, !.counters = NoEntries]]
    /\ th' = [th EXCEPT ![t].pc = "init_rest"]
    /\ UNCHANGED <<packVars, auxVars, instances, ctrs, locks, pipeVars, histVars, looked, given,
                   inits>>

\* the four last assignments of __init__, and its return
InitFinish(t) ==
    /\ th[t].pc = "init_rest"
    /\ conns' = [conns EXCEPT ![th[t].conn] = InitRest(@)]
    /\ th' = [th EXCEPT ![t].pc = "idle"]
    /\ UNCHANGED <<packVars, auxVars, instances, ctrs, locks, pipeVars, histVars, looked, given,
                   inits>>

\* conn.<name>: synchronized enters __getattr__ under self._lock
GaEnter(t, name) ==
    /\ th[t].pc = "idle"
    /\ th[t].conn # 0
    /\ nops < MaxConnOps
    /\ \E l \in { SelfLock(conns[th[t].conn]) } :
         /\ CanAcquire(locks[l], t)
         /\ locks' = [locks EXCEPT ![l] = Acquired(@, t)]
         /\ th' = [th EXCEPT ![t] = [pc |-> "ga", conn |-> @.conn, name |-> name, lk |-> l]]
    /\ nops' = nops + 1
    /\ UNCHANGED <<packVars, auxVars, instances, conns, ctrs, pipeVars, due, pure, ret, deq,
                   last_send, ncycles, looked, given, inits>>

\* if name.startswith("_"): raise AttributeError; if name not in
\* self._counters (reading self._counters of an object that has none
\* raises AttributeError too).  Raising leaves the with block.
GaCheck(t) ==
    /\ th[t].pc = "ga"
    /\ IF \/ StartsWithUnderscore(th[t].name)
          \/ "_counters" \notin conns[th[t].conn].attrs
       THEN /\ locks' = [locks EXCEPT ![th[t].lk] = Released(@)]
            /\ th' = [th EXCEPT ![t] = [pc |-> "idle", conn |-> @.conn]]
       ELSE /\ th' = [th EXCEPT ![t].pc =
                        IF th[t].name \in DOMAIN conns[th[t].conn].counters
                        THEN "ga_return" ELSE "ga_create"]
            /\ UNCHANGED locks
    /\ UNCHANGED <<packVars, auxVars, instances, conns, ctrs, pipeVars, histVars, looked, given,
                   inits>>

\* self._counters[name] = Counter(name)
GaCreate(t) ==
    /\ th[t].pc = "ga_create"
    /\ Len(ctrs) < MaxCounters
    /\ locks' = Append(locks, FreeLock)
    /\ ctrs' = Append(ctrs, NewCounter(th[t].name, Len(locks) + 1))
    /\ conns' = [conns EXCEPT ![th[t].conn].counters =
                   [n \in DOMAIN @ \cup {th[t].name} |->
                      IF n = th[t].name THEN Len(ctrs) + 1 ELSE @[n]]]
    /\ due' = Append(due, NoEntries)
    /\ pure' = Append(pure, TRUE)
    /\ ret' = Append(ret, NoRet)
    /\ th' = [th EXCEPT ![t].pc = "ga_return"]
    /\ UNCHANGED <<packVars, auxVars, instances, pipeVars, deq, last_send, nops, ncycles, looked,
                   given, inits>>

\* return self._counters[name] (KeyError when the name is not there), and
\* the with block is left
GaReturn(t) ==
    /\ th[t].pc = "ga_return"
    /\ locks' = [locks EXCEPT ![th[t].lk] = Released(@)]
    /\ given' = IF th[t].name \in DOMAIN conns[th[t].conn].counters
                THEN given \cup {[conn |-> th[t].conn, name |-> th[t].name,
                                  ctr |-> conns[th[t].conn].counters[th[t].name]]}
                ELSE given
    /\ th' = [th EXCEPT ![t] = [pc |-> "idle", conn |-> @.conn]]
    /\ UNCHANGED <<packVars, auxVars, instances, conns, ctrs, pipeVars, histVars, looked, inits>>

\* the names threads look up: a counter name and a private name
ThreadNames == { Str(<<"t">>), Str(<<"_","p">>) }

\* Specification SpecConn: threads that look Connections up and get their
\* Counters
NextConn ==
    \E t \in Threads :
       \/ \E id \in LookupIds : NewEnter(t, id)
       \/ NewCheck(t)
       \/ NewInsert(t)
       \/ NewReturn(t)
       \/ InitCheck(t)
       \/ InitLock(t)
       \/ InitCounters(t)
       \/ InitFinish(t)
       \/ \E name \in ThreadNames : GaEnter(t, name)
       \/ GaCheck(t)
       \/ GaCreate(t)
       \/ GaReturn(t)

SpecConn == InitSeq /\ [][NextConn]_vars

-----------------------------------------------------------------------------
(* Threads that call the methods of Counters.  The body of a method runs   *)
(* one cell at a time.                                                     *)

MaxCtrOps == 4

\* a call of a method of Counter k is begun: synchronized enters it under
\* the Counter's lock
Enter(t, k, pc, todo) ==
    /\ th[t].pc = "idle"
    /\ nops < MaxCtrOps
    /\ CanAcquire(locks[ctrs[k].lock], t)
    /\ locks' = [locks EXCEPT ![ctrs[k].lock] = Acquired(@, t)]
    /\ th' = [th EXCEPT ![t] = [pc |-> pc, conn |-> @.conn, ctr |-> k, todo |-> todo,
                                totals |-> NoEntries]]
    /\ nops' = nops + 1
    /\ UNCHANGED <<packVars, auxVars, instances, conns, ctrs, pipeVars, due, pure, ret, deq,
                   last_send, ncycles, looked, given, inits>>

\* counter.record(*args, **kwargs) is called
RecordEnter(t, k, args, kwargs) ==
    /\ CellsOfConn(OwnerOf(k), [ctrs EXCEPT ![k].counts = Counter_record(@, args, kwargs)])
         <= MaxCells
    /\ Enter(t, k, "record",
             [plan |-> RecordPlan(args, kwargs),
              named |-> RecordPlan(args, kwargs),
              raises |-> RecordRaises(args, kwargs),
              recorded |-> IF RecordRaises(args, kwargs) THEN <<>>
                           ELSE RecordedBy(ctrs[k].category, args, kwargs)])

\* self.counts[str(specific)][str(stat)] += value
RecordStep(t) ==
    /\ th[t].pc = "record"
    /\ th[t].todo.plan # <<>>
    /\ ctrs' = [ctrs EXCEPT ![th[t].ctr].counts =
                  AddCell(@, Head(th[t].todo.plan).cell, Head(th[t].todo.plan).v)]
    /\ th' = [th EXCEPT ![t].todo.plan = Tail(@)]
    /\ UNCHANGED <<packVars, auxVars, instances, conns, locks, pipeVars, histVars, looked, given,
                   inits>>

\* record() ends, by its last statement or by an assertion that fails
RecordReturn(t) ==
    /\ th[t].pc = "record"
    /\ th[t].todo.plan = <<>>
    /\ locks' = [locks EXCEPT ![ctrs[th[t].ctr].lock] = Released(@)]
    /\ due' = [due EXCEPT ![th[t].ctr] =
                 IF th[t].todo.raises
                 THEN DueNamed(@, ctrs[th[t].ctr].category, th[t].todo.named)
                 ELSE ApplyAdds(@, th[t].todo.recorded)]
    /\ pure' = [pure EXCEPT ![th[t].ctr] = @ /\ ~th[t].todo.raises]
    /\ th' = [th EXCEPT ![t] = [pc |-> "idle", conn |-> @.conn]]
    /\ caller' = [op |-> "record", raised |-> swallow_errors(th[t].todo.raises)]
    /\ UNCHANGED <<packVars, taskVars, sanVars, instances, conns, ctrs, pipeVars, ret, deq, last_send, nops,
                   ncycles, looked, given, inits>>

\* counter.set_exact(**kwargs) is called
SetExactEnter(t, k, kwargs) ==
    /\ CellsOfConn(OwnerOf(k), [ctrs EXCEPT ![k].counts = Counter_set_exact(@, kwargs)])
         <= MaxCells
    /\ Enter(t, k, "set_exact",
             [plan |-> SetExactPlan(kwargs), named |-> SetExactPlan(kwargs),
              raises |-> \E j \in 1..Len(kwargs) : ~kwargs[j].ok])

\* self.counts[""][str(stat)] = value
SetExactStep(t) ==
    /\ th[t].pc = "set_exact"
    /\ th[t].todo.plan # <<>>
    /\ ctrs' = [ctrs EXCEPT ![th[t].ctr].counts =
                  SetCell(@, Head(th[t].todo.plan).cell, Head(th[t].todo.plan).v)]
    /\ th' = [th EXCEPT ![t].todo.plan = Tail(@)]
    /\ UNCHANGED <<packVars, auxVars, instances, conns, locks, pipeVars, histVars, looked, given,
                   inits>>

\* set_exact() ends, by its last statement or by an assertion that fails
SetExactReturn(t) ==
    /\ th[t].pc = "set_exact"
    /\ th[t].todo.plan = <<>>
    /\ locks' = [locks EXCEPT ![ctrs[th[t].ctr].lock] = Released(@)]
    /\ due' = [due EXCEPT ![th[t].ctr] =
                 DueNamed(@, ctrs[th[t].ctr].category, th[t].todo.named)]
    /\ pure' = [pure EXCEPT ![th[t].ctr] = FALSE]
    /\ th' = [th EXCEPT ![t] = [pc |-> "idle", conn |-> @.conn]]
    /\ caller' = [op |-> "set_exact", raised |-> swallow_errors(th[t].todo.raises)]
    /\ UNCHANGED <<packVars, taskVars, sanVars, instances, conns, ctrs, pipeVars, ret, deq, last_send, nops,
                   ncycles, looked, given, inits>>

\* counter.snapshot() is called; plan is the order in which the loops will
\* visit the cells
SnapshotEnter(t, k) ==
    \E q \in CellOrders(ctrs[k].counts) : Enter(t, k, "snapshot", [plan |-> q])

\* totals[name] = counts[stat]; counts[stat] = 0.0
SnapshotStep(t) ==
    /\ th[t].pc = "snapshot"
    /\ th[t].todo.plan # <<>>
    /\ \E c \in { Head(th[t].todo.plan) } :
       \E name \in { derived_name(ctrs[th[t].ctr].category, c[1], c[2]) } :
         /\ th' = [th EXCEPT ![t].todo.plan = Tail(@),
                             ![t].totals = [n \in DOMAIN @ \cup {name} |->
                                              IF n = name THEN ctrs[th[t].ctr].counts[c]
                                              ELSE @[n]]]
         /\ ctrs' = [ctrs EXCEPT ![th[t].ctr].counts[c] = 0]
    /\ UNCHANGED <<packVars, auxVars, instances, conns, locks, pipeVars, histVars, looked, given,
                   inits>>

\* return totals
SnapshotReturn(t) ==
    /\ th[t].pc = "snapshot"
    /\ th[t].todo.plan = <<>>
    /\ locks' = [locks EXCEPT ![ctrs[th[t].ctr].lock] = Released(@)]
    /\ ret' = [ret EXCEPT ![th[t].ctr] =
                 [has |-> TRUE, totals |-> th[t].totals, due |-> due[th[t].ctr],
                  pure |-> pure[th[t].ctr]]]
    /\ due' = [due EXCEPT ![th[t].ctr] = [n \in DOMAIN @ |-> 0]]
    /\ pure' = [pure EXCEPT ![th[t].ctr] = TRUE]
    /\ th' = [th EXCEPT ![t] = [pc |-> "idle", conn |-> @.conn]]
    /\ UNCHANGED <<packVars, auxVars, instances, conns, ctrs, pipeVars, deq, last_send, nops,
                   ncycles, looked, given, inits>>

\* Specification SpecCtr: one Connection, its Counters, and threads that
\* call the Counters' methods
NextCtr ==
    \/ Connect(Id1)
    \/ \E o \in 1..Len(conns), name \in ThreadNames : GetAttr(o, name)
    \/ \E t \in Threads :
         \/ \E k \in 1..Len(ctrs), call \in PipeCalls :
              RecordEnter(t, k, call.args, call.kwargs)
         \/ RecordStep(t)
         \/ RecordReturn(t)
         \/ \E k \in 1..Len(ctrs), kwargs \in KwargsMenu : SetExactEnter(t, k, kwargs)
         \/ SetExactStep(t)
         \/ SetExactReturn(t)
         \/ \E k \in 1..Len(ctrs) : SnapshotEnter(t, k)
         \/ SnapshotStep(t)
         \/ SnapshotReturn(t)

SpecCtr == InitSeq /\ [][NextCtr]_vars

-----------------------------------------------------------------------------
(* The background tasks: start_threads(), the loop of daemonize() and the  *)
(* cycles of take_snapshots() and send_stats(), one statement at a time.   *)
(* A task is [func, sleep_for, pc] and the local variables of its cycle;   *)
(* the i-th task runs in a thread of its own, TaskThread(i).               *)

MaxStarts == 3
MaxQueue == 1
MaxTasks == 2

\* Mutant of Semaphore_acquire: the Semaphore is always acquired.
Semaphore_acquire_Always(value) == [ok |-> TRUE, value |-> value]

\* single_start.acquire(blocking = False): whether it was acquired, and
\* the Semaphore's value after
Semaphore_acquire(value) ==
    [ok |-> value > 0, value |-> IF value > 0 THEN value - 1 ELSE value]

\* no local variable
NoLocals == [x \in {} |-> 0]

\* the daemon Thread that daemonize(func, sleep_for) starts, about to call
\* func for the first time; loc holds the local variables of the cycle,
\* and failed tells whether a cycle of the task has raised
NewTask(func, sleep_for) ==
    [func |-> func, sleep_for |-> sleep_for, pc |-> "try", loc |-> NoLocals,
     failed |-> FALSE]

TaskThread(i) == NumThreads + i

\* the threads inside start_threads()
Starting == { t \in Threads : th[t].pc \in {"start_collector", "start_sender"} }

\* start_threads(): assert single_start.acquire(blocking = False); the
\* AssertionError of a failed assert ends the call
StartAcquire(t) ==
    /\ th[t].pc = "idle"
    /\ Len(starts) + Cardinality(Starting) < MaxStarts
    /\ \E got \in { Semaphore_acquire(single_start) } :
         /\ single_start' = got.value
         /\ IF got.ok
            THEN /\ th' = [th EXCEPT ![t] = [pc |-> "start_collector", conn |-> @.conn]]
                 /\ UNCHANGED starts
            ELSE /\ starts' = Append(starts, [t |-> t, raised |-> TRUE])
                 /\ UNCHANGED th
    /\ UNCHANGED <<packVars, sysVars_but_th, tasks, sanVars, caller>>

\* daemonize(take_snapshots, sleep_for = SEND_INTERVAL)
StartCollector(t) ==
    /\ th[t].pc = "start_collector"
    /\ tasks' = Append(tasks, NewTask("take_snapshots", SEND_INTERVAL))
    /\ th' = [th EXCEPT ![t].pc = "start_sender"]
    /\ UNCHANGED <<packVars, sysVars_but_th, single_start, starts, sanVars, caller>>

\* daemonize(send_stats), and start_threads() returns
StartSender(t) ==
    /\ th[t].pc = "start_sender"
    /\ tasks' = Append(tasks, NewTask("send_stats", 0))
    /\ starts' = Append(starts, [t |-> t, raised |-> FALSE])
    /\ th' = [th EXCEPT ![t].pc = "idle"]
    /\ UNCHANGED <<packVars, sysVars_but_th, single_start, sanVars, caller>>

\* Mutant of AfterCycle: func() is called outside any try.
AfterCycle_NoTry(raised) == IF raised THEN "dead" ELSE "sleep"

\* try: func() / except: ... of daemonize: where the loop goes on after a
\* cycle that raised or returned
AfterCycle(raised) == IF raised THEN "except" ELSE "sleep"

\* take_snapshots() is called: for conn in Connection.instances.values()
CollectorCall(i) ==
    /\ i \in DOMAIN tasks
    /\ tasks[i].pc = "try"
    /\ tasks[i].func = "take_snapshots"
    /\ \E order \in SeqsOf(Registered) :
         tasks' = [tasks EXCEPT ![i].pc = "next_conn", ![i].loc = [todo |-> order]]
    /\ UNCHANGED <<packVars, sysVars, single_start, starts, sanVars, caller>>

\* the next conn of the loop: conn._snapshot() is entered under
\* self._lock; after the last one take_snapshots() returns
CollectorNext(i) ==
    /\ i \in DOMAIN tasks
    /\ tasks[i].pc = "next_conn"
    /\ IF tasks[i].loc.todo = <<>>
       THEN /\ tasks' = [tasks EXCEPT ![i].pc = AfterCycle(FALSE), ![i].loc = NoLocals]
            /\ UNCHANGED locks
       ELSE \E l \in { SelfLock(conns[Head(tasks[i].loc.todo)]) } :
              /\ CanAcquire(locks[l], TaskThread(i))
              /\ locks' = [locks EXCEPT ![l] = Acquired(@, TaskThread(i))]
              /\ tasks' = [tasks EXCEPT ![i].pc = "snapshot",
                                        ![i].loc = [todo |-> @.todo, lk |-> l]]
    /\ UNCHANGED <<packVars, instances, conns, ctrs, pipeVars, histVars, thrVars,
                   single_start, starts, sanVars, caller>>

\* [... for c in self._counters.values() ...]: reading self._counters of
\* an object that has none calls __getattr__("_counters"), which raises
\* AttributeError; the with block is left and take_snapshots() ends, the
\* rest of its loop not run
CollectorSnapshot(i) ==
    /\ i \in DOMAIN tasks
    /\ tasks[i].pc = "snapshot"
    /\ IF "_counters" \notin conns[Head(tasks[i].loc.todo)].attrs
       THEN /\ locks' = [locks EXCEPT ![tasks[i].loc.lk] = Released(@)]
            /\ tasks' = [tasks EXCEPT ![i].pc = AfterCycle(TRUE),
                                      ![i].loc = [skipped |-> Tail(@.todo)]]
       ELSE /\ \E corder \in SeqsOf(Range(conns[Head(tasks[i].loc.todo)].counters)) :
                 tasks' = [tasks EXCEPT ![i].pc = "counter",
                                        ![i].loc = [todo |-> @.todo, lk |-> @.lk,
                                                    ctodo |-> corder, order |-> <<>>,
                                                    pick |-> NoEntries]]
            /\ UNCHANGED locks
    /\ UNCHANGED <<packVars, instances, conns, ctrs, pipeVars, histVars, thrVars,
                   single_start, starts, sanVars, caller>>

\* the next c of the list: if c.counts, c.snapshot() under the Counter's
\* lock
CollectorCounter(i) ==
    /\ i \in DOMAIN tasks
    /\ tasks[i].pc = "counter"
    /\ tasks[i].loc.ctodo # <<>>
    /\ \E k \in { Head(tasks[i].loc.ctodo) } :
         IF DOMAIN ctrs[k].counts = {}
         THEN /\ tasks' = [tasks EXCEPT ![i].loc.ctodo = Tail(@)]
              /\ UNCHANGED <<ctrs, due, pure>>
         ELSE /\ CanAcquire(locks[ctrs[k].lock], TaskThread(i))
              /\ \E totals \in Counter_snapshot(ctrs[k].category, ctrs[k].counts) :
                   tasks' = [tasks EXCEPT ![i].loc.ctodo = Tail(@),
                                          ![i].loc.order = Append(@, k),
                                          ![i].loc.pick = [x \in DOMAIN @ \cup {k} |->
                                                             IF x = k THEN totals ELSE @[x]]]
              /\ ctrs' = [ctrs EXCEPT ![k].counts = ResetCounts(@)]
              /\ due' = [due EXCEPT ![k] = [n \in DOMAIN @ |-> 0]]
              /\ pure' = [pure EXCEPT ![k] = TRUE]
    /\ UNCHANGED <<packVars, instances, conns, locks, pipeVars, ret, deq, last_send, nops,
                   ncycles, thrVars, single_start, starts, sanVars, caller>>

\* _snapshot() returns its list and self._lock is released; if snapshots:
\* the mappings are merged into stats
CollectorReturn(i) ==
    /\ i \in DOMAIN tasks
    /\ tasks[i].pc = "counter"
    /\ tasks[i].loc.ctodo = <<>>
    /\ locks' = [locks EXCEPT ![tasks[i].loc.lk] = Released(@)]
    /\ tasks' = [tasks EXCEPT
                   ![i].pc = IF tasks[i].loc.order = <<>> THEN "next_conn" ELSE "put",
                   ![i].loc = IF tasks[i].loc.order = <<>>
                              THEN [todo |-> Tail(@.todo)]
                              ELSE [todo |-> @.todo,
                                    stats |-> MergeSnapshots(@.order, @.pick)]]
    /\ UNCHANGED <<packVars, instances, conns, ctrs, pipeVars, histVars, thrVars,
                   single_start, starts, sanVars, caller>>

\* an entry the Collector task puts: its history fields are not kept
TaskEntry(when, stats, o) ==
    [when |-> when, stats |-> stats, conn |-> o, g_seq |-> 0, g_due |-> NoEntries,
     g_pure |-> FALSE, g_cells |-> 0, g_solo |-> FALSE]

\* snaps.put([int(time.time()), stats, conn])
CollectorPut(i) ==
    /\ i \in DOMAIN tasks
    /\ tasks[i].pc = "put"
    /\ Len(snaps) < MaxQueue
    /\ \E now \in Times(1) :
         /\ snaps' = Queue_put(snaps, << TaskEntry(now[1], tasks[i].loc.stats,
                                                  Head(tasks[i].loc.todo)) >>)
         /\ clock' = now[1]
    /\ tasks' = [tasks EXCEPT ![i].pc = "next_conn", ![i].loc = [todo |-> Tail(@.todo)]]
    /\ UNCHANGED <<packVars, objVars, sock, histVars, thrVars,
                   single_start, starts, sanVars, caller>>

\* send_stats() is called: snaps.get(timeout = 0.1); on Empty it returns
\* (raise_on_empty is False)
SenderCall(i) ==
    /\ i \in DOMAIN tasks
    /\ tasks[i].pc = "try"
    /\ tasks[i].func = "send_stats"
    /\ IF snaps = <<>>
       THEN /\ tasks' = [tasks EXCEPT ![i].pc = AfterCycle(FALSE)]
            /\ UNCHANGED snaps
       ELSE \E got \in { Queue_get(snaps) } :
              /\ snaps' = got.rest
              /\ tasks' = [tasks EXCEPT ![i].pc = "send", ![i].loc = [entry |-> got.item]]
    /\ UNCHANGED <<packVars, objVars, sock, clock, histVars, thrVars,
                   single_start, starts, sanVars, caller>>

\* for message in messages(...): sock.sendto(message, conn._collectd_addr)
SenderSend(i) ==
    /\ i \in DOMAIN tasks
    /\ tasks[i].pc = "send"
    /\ \E q \in SeqsOf(DOMAIN tasks[i].loc.entry.stats) :
       \E r \in { Sent(tasks[i].loc.entry, q) } :
         /\ sock' = sock \o r.out
         /\ tasks' = [tasks EXCEPT ![i].pc = AfterCycle(r.raised), ![i].loc = NoLocals]
    /\ UNCHANGED <<packVars, objVars, snaps, clock, histVars, thrVars,
                   single_start, starts, sanVars, caller>>

\* except: logger.error("unexpected error", exc_info = True), and
\* traceback.print_exc() if the logging raises
TaskExcept(i) ==
    /\ i \in DOMAIN tasks
    /\ tasks[i].pc = "except"
    /\ tasks' = [tasks EXCEPT ![i].pc = "sleep", ![i].loc = NoLocals, ![i].failed = TRUE]
    /\ UNCHANGED <<packVars, sysVars, single_start, starts, sanVars, caller>>

\* time.sleep(sleep_for), and the loop starts again
TaskSleep(i) ==
    /\ i \in DOMAIN tasks
    /\ tasks[i].pc = "sleep"
    /\ tasks' = [tasks EXCEPT ![i].pc = "try"]
    /\ UNCHANGED <<packVars, sysVars, single_start, starts, sanVars, caller>>

\* a step of the i-th task
TaskStep(i) ==
    \/ CollectorCall(i)
    \/ CollectorNext(i)
    \/ CollectorSnapshot(i)
    \/ CollectorCounter(i)
    \/ CollectorReturn(i)
    \/ CollectorPut(i)
    \/ SenderCall(i)
    \/ SenderSend(i)
    \/ TaskExcept(i)
    \/ TaskSleep(i)

\* Specification SpecDaemon: callers that start the pipeline once, create
\* Connections and record, beside the daemon threads.  The Counters have
\* names so long that no datagram is sent for their cells: a name of a
\* packet's size is dropped by messages(), and one whose length overflows
\* "H" makes it raise.
DaemonNames == { Rep("X", USHRT_MAX - 4) }

\* Connection o is initialised and no thread is inside one of its methods
Quiet(o) ==
    /\ {"_lock", "_counters"} \subseteq conns[o].attrs
    /\ locks[conns[o].lock].owner = NoThread

\* the thread that creates Connections while the tasks run
Creators == {1}

\* the thread that starts the pipeline
Starters == {2}

MaxDaemonOps == 2

NextDaemon ==
    \/ \E t \in Starters :
          \/ starts = <<>> /\ StartAcquire(t)
          \/ StartCollector(t)
          \/ StartSender(t)
    \/ \E t \in Creators :
          \/ nops < MaxDaemonOps /\ NewEnter(t, Id2)
          \/ NewCheck(t)
          \/ NewInsert(t)
          \/ NewReturn(t)
          \/ InitCheck(t)
          \/ InitLock(t)
          \/ InitCounters(t)
          \/ InitFinish(t)
    \/ locks[1].owner = NoThread /\ Connect(Id1)
    \/ \E o \in 1..Len(conns), name \in DaemonNames : Quiet(o) /\ GetAttr(o, name)
    \/ \E o \in 1..Len(conns) : \E k \in Range(conns[o].counters) :
          nops < MaxDaemonOps /\ Record(k, <<>>, <<Kw(<<"f">>, 1)>>)
    \/ \E i \in 1..MaxTasks :
          \/ CollectorCall(i)
          \/ CollectorNext(i)
          \/ CollectorSnapshot(i)
          \/ CollectorCounter(i)
          \/ CollectorReturn(i)
          \/ CollectorPut(i)
          \/ SenderCall(i)
          \/ SenderSend(i)
          \/ TaskExcept(i)
          \/ TaskSleep(i)

SpecDaemon == InitSeq /\ [][NextDaemon]_vars

\* Specification SpecStart: threads that call start_threads(), one after
\* the other or at once, beside a caller that records and the daemon
\* threads.
NextStart ==
    \/ \E t \in Threads :
          \/ StartAcquire(t)
          \/ StartCollector(t)
          \/ StartSender(t)
    \/ Connect(Id1)
    \/ \E o \in 1..Len(conns), name \in DaemonNames : Quiet(o) /\ GetAttr(o, name)
    \/ \E k \in 1..Len(ctrs) : nops < MaxDaemonOps /\ Record(k, <<>>, <<Kw(<<"f">>, 1)>>)
    \/ \E i \in 1..MaxTasks :
          \/ CollectorCall(i)
          \/ CollectorNext(i)
          \/ CollectorSnapshot(i)
          \/ CollectorCounter(i)
          \/ CollectorReturn(i)
          \/ CollectorPut(i)
          \/ SenderCall(i)
          \/ SenderSend(i)
          \/ TaskExcept(i)
          \/ TaskSleep(i)

SpecStart == InitSeq /\ [][NextStart]_vars

\* a step of a caller that is inside start_threads() or Connection()
CallStep(t) ==
    \/ StartCollector(t)
    \/ StartSender(t)
    \/ NewCheck(t)
    \/ NewInsert(t)
    \/ NewReturn(t)
    \/ InitCheck(t)
    \/ InitLock(t)
    \/ InitCounters(t)
    \/ InitFinish(t)

\* the thread of the i-th task can take its next step: it waits neither
\* for a lock nor for room in the queue (the model bounds the queue)
Runnable(i) ==
    /\ i <= Len(tasks)
    /\ CASE tasks[i].pc = "next_conn" /\ tasks[i].loc.todo # <<>> ->
               CanAcquire(locks[SelfLock(conns[Head(tasks[i].loc.todo)])], TaskThread(i))
          [] tasks[i].pc = "counter" /\ tasks[i].loc.ctodo # <<>> ->
               \/ DOMAIN ctrs[Head(tasks[i].loc.ctodo)].counts = {}
               \/ CanAcquire(locks[ctrs[Head(tasks[i].loc.ctodo)].lock], TaskThread(i))
          [] tasks[i].pc = "put" -> Len(snaps) < MaxQueue
          [] OTHER -> tasks[i].pc \in {"try", "next_conn", "snapshot", "counter", "send",
                                       "except", "sleep"}

\* WF_vars(TaskStep(i)), with ENABLED <<TaskStep(i)>>_vars written out as
\* Runnable(i)
TaskFair(i) == []<>(~Runnable(i)) \/ []<><<TaskStep(i)>>_vars

\* Specification SpecLive: SpecDaemon under a fair scheduler.  A thread
\* that can take a step takes one: a daemon thread the next statement of
\* its loop, a caller the next statement of the call it is in.  A caller
\* need not make another call.
FairThreads ==
    /\ \A i \in 1..MaxTasks : TaskFair(i)
    /\ \A t \in Threads : WF_vars(CallStep(t))

SpecLive == SpecDaemon /\ FairThreads

\* A task takes a step only when Runnable.
RunnableWhenStepping ==
    [][\A i \in 1..MaxTasks : TaskStep(i) => Runnable(i)]_vars

\* C16: a task, once started, never terminates: it is never past its
\* loop and it calls its function again and again, so that a cycle of it
\* that raised is followed by its next cycle.
TaskCalls(i) == i <= Len(tasks) => tasks[i].pc = "try"

C16_TasksNeverTerminate ==
    /\ [](\A i \in 1..Len(tasks) : tasks[i].pc # "dead")
    /\ \A i \in 1..MaxTasks : []<>TaskCalls(i)

\* both tasks have raised and are about to call their functions again
C16_Witness ==
    /\ Len(tasks) = MaxTasks
    /\ \A i \in 1..MaxTasks : tasks[i].failed /\ tasks[i].pc = "try"

-----------------------------------------------------------------------------
(* The three lock domains together: callers that look a Connection up,    *)
(* get a Counter of it and record, one statement at a time, beside the     *)
(* daemon threads.  synchronized reads self._lock and then waits for that  *)
(* lock: a caller that has read it is at "lock" until it acquires it.      *)

MaxLockOps == 4

\* the callers that wait for a lock
AtLock == { t \in Threads : th[t].pc = "lock" }

\* with self._lock: thread t has read self._lock (lock l) and waits for
\* it; next is the thread once inside the method
Requested(t, l, next) ==
    /\ th[t].pc = "idle"
    /\ nops + Cardinality(AtLock) < MaxLockOps
    /\ th' = [th EXCEPT ![t] = [pc |-> "lock", conn |-> @.conn, lock |-> l, next |-> next]]
    /\ UNCHANGED <<packVars, sysVars_but_th, auxVars>>

\* Connection(*id) is called by a thread that holds no Connection yet:
\* __new__ is entered under Connection._lock
NewRequest(t, id) ==
    /\ th[t].conn = 0
    /\ Requested(t, 1, [pc |-> "new", conn |-> th[t].conn, id |-> id])

\* conn.<name> is called: __getattr__ is entered under self._lock
GaRequest(t, name) ==
    /\ th[t].conn # 0
    /\ \E l \in { SelfLock(conns[th[t].conn]) } :
         Requested(t, l, [pc |-> "ga", conn |-> th[t].conn, name |-> name, lk |-> l])

\* counter.record(*args, **kwargs) is called on a Counter of the thread's
\* Connection: record() is entered under the Counter's lock
RecordRequest(t, k, args, kwargs) ==
    /\ th[t].conn # 0
    /\ k \in Range(conns[th[t].conn].counters)
    /\ Cardinality(DOMAIN Counter_record(ctrs[k].counts, args, kwargs)) <= MaxCells
    /\ Requested(t, ctrs[k].lock,
                 [pc |-> "record", conn |-> th[t].conn, ctr |-> k,
                  todo |-> [plan |-> RecordPlan(args, kwargs),
                            named |-> RecordPlan(args, kwargs),
                            raises |-> RecordRaises(args, kwargs),
                            recorded |-> IF RecordRaises(args, kwargs) THEN <<>>
                                         ELSE RecordedBy(ctrs[k].category, args, kwargs)],
                  totals |-> NoEntries])

\* counter.set_exact(**kwargs) is called: set_exact() is entered under the
\* Counter's lock
SetExactRequest(t, k, kwargs) ==
    /\ th[t].conn # 0
    /\ k \in Range(conns[th[t].conn].counters)
    /\ Cardinality(DOMAIN Counter_set_exact(ctrs[k].counts, kwargs)) <= MaxCells
    /\ Requested(t, ctrs[k].lock,
                 [pc |-> "set_exact", conn |-> th[t].conn, ctr |-> k,
                  todo |-> [plan |-> SetExactPlan(kwargs), named |-> SetExactPlan(kwargs),
                            raises |-> \E j \in 1..Len(kwargs) : ~kwargs[j].ok],
                  totals |-> NoEntries])

\* the lock is acquired: the thread is inside the method
LockAcquire(t) ==
    /\ th[t].pc = "lock"
    /\ CanAcquire(locks[th[t].lock], t)
    /\ locks' = [locks EXCEPT ![th[t].lock] = Acquired(@, t)]
    /\ th' = [th EXCEPT ![t] = @.next]
    /\ nops' = nops + 1
    /\ UNCHANGED <<packVars, auxVars, instances, conns, ctrs, pipeVars, due, pure, ret, deq,
                   last_send, ncycles, looked, given, inits>>

\* a step of a caller that is inside a call
InCallStep(t) ==
    \/ CallStep(t)
    \/ GaCheck(t)
    \/ GaCreate(t)
    \/ GaReturn(t)
    \/ RecordStep(t)
    \/ RecordReturn(t)
    \/ SetExactStep(t)
    \/ SetExactReturn(t)

\* Specification SpecLock: two callers and the daemon threads
NextLock ==
    \/ \E t \in Starters :
          \/ starts = <<>> /\ StartAcquire(t)
          \/ StartCollector(t)
          \/ StartSender(t)
    \/ \E t \in Threads :
          \/ NewRequest(t, Id1)
          \/ \E name \in DaemonNames : GaRequest(t, name)
          \/ \E k \in 1..Len(ctrs) : RecordRequest(t, k, <<>>, <<Kw(<<"f">>, 1)>>)
          \/ \E k \in 1..Len(ctrs) : SetExactRequest(t, k, <<Kw(<<"f">>, 1)>>)
          \/ LockAcquire(t)
          \/ NewCheck(t)
          \/ NewInsert(t)
          \/ NewReturn(t)
          \/ InitCheck(t)
          \/ InitLock(t)
          \/ InitCounters(t)
          \/ InitFinish(t)
          \/ GaCheck(t)
          \/ GaCreate(t)
          \/ GaReturn(t)
          \/ RecordStep(t)
          \/ RecordReturn(t)
          \/ SetExactStep(t)
          \/ SetExactReturn(t)
    \/ \E i \in 1..MaxTasks :
          \/ CollectorCall(i)
          \/ CollectorNext(i)
          \/ CollectorSnapshot(i)
          \/ CollectorCounter(i)
          \/ CollectorReturn(i)
          \/ CollectorPut(i)
          \/ SenderCall(i)
          \/ SenderSend(i)
          \/ TaskExcept(i)
          \/ TaskSleep(i)

SpecLock == InitSeq /\ [][NextLock]_vars

\* Specification SpecLockLive: SpecLock under a fair scheduler.  A thread
\* inside a call takes its next step, a daemon thread the next statement
\* of its loop, and a caller that waits for a lock gets it if the lock is
\* free again and again: the Collector, the one thread that takes locks
\* for ever, holds none while it sleeps SEND_INTERVAL seconds between two
\* cycles, and a release wakes a thread that waits.  A caller need not
\* make another call.
\* a caller inside a call can take its next step
InCall(t) ==
    /\ th[t].pc \notin {"idle", "lock"}
    /\ th[t].pc = "ga_create" => Len(ctrs) < MaxCounters

\* WF_vars(InCallStep(t)), with ENABLED <<InCallStep(t)>>_vars written out
\* as InCall(t)
CallerFair(t) == []<>(~InCall(t)) \/ []<><<InCallStep(t)>>_vars

FairLock ==
    /\ \A i \in 1..MaxTasks : TaskFair(i)
    /\ \A t \in Threads : CallerFair(t)
    /\ \A t \in Threads : SF_vars(LockAcquire(t))

SpecLockLive == SpecLock /\ FairLock

-----------------------------------------------------------------------------
(* Properties of Counter.snapshot() and of the queue between the         *)
(* Collector and the Sender.                                               *)

\* what follows the six header fields in a buffer
ValueFields(buf) == SubSeq(buf, 7, Len(buf))

\* no two cells of Counter k have the same derived name
DistinctNames(k) ==
    Cardinality({ p.name : p \in CellNames(ctrs[k].category, ctrs[k].counts) })
      = Cardinality(DOMAIN ctrs[k].counts)

\* C2: after record() calls with valid numeric stats alone, snapshot()
\* returns for each derived name the exact sum of the values recorded under
\* it since the previous snapshot (hence 0 for each name when nothing was
\* recorded since, as in a second snapshot taken immediately).
C2_SnapshotExactSum ==
    \A k \in 1..Len(ret) :
       (ret[k].has /\ ret[k].pure) => ret[k].totals = ret[k].due

\* C2 holds of the Counters whose cells have distinct derived names.
C2_ExactSumOfDistinctNames ==
    \A k \in 1..Len(ret) :
       (ret[k].has /\ ret[k].pure /\ DistinctNames(k)) => ret[k].totals = ret[k].due

\* the (name, value) pairs of the value fields of the datagrams in out, in
\* the order sent
RECURSIVE SentPairs(_)
SentPairs(out) ==
    IF out = <<>> THEN <<>>
    ELSE LET fs == ValueFields(Head(out).data)
         IN [i \in 1..(Len(fs) \div 2) |-> <<fs[2 * i - 1].data, fs[2 * i].data[3]>>]
            \o SentPairs(Tail(out))

\* what C9 states of the last Sender cycle
EndToEnd ==
    LET e == last_send.entry
        pairs == SentPairs(last_send.sent)
    IN /\ ~last_send.raised
       /\ \E q \in SeqsOf(DOMAIN e.stats) : last_send.sent = Sent(e, q).out
       /\ \A i \in 1..Len(last_send.sent) :
             last_send.sent[i].addr = conns[e.conn].collectd_addr
       /\ \A n \in DOMAIN e.g_due :
             /\ Cardinality({ i \in 1..Len(pairs) : pairs[i][1] = n }) = 1
             /\ \E i \in 1..Len(pairs) : pairs[i] = <<n, e.g_due[n]>>
       /\ last_send.qlen = 0

\* C9: when valid stats were recorded on a Connection and one Collector
\* cycle was followed by one Sender cycle, the datagrams written are the
\* buffers of messages() for the merged snapshot, each sent to the
\* Connection's address; together they hold every derived name recorded
\* with its accumulated value exactly once; and the queue is empty.
C9_EndToEnd ==
    (last_send.has /\ last_send.entry.g_solo /\ last_send.entry.g_pure
       /\ last_send.entry.g_seq = Len(deq) + Len(snaps))
      => EndToEnd

\* C9 holds where no two cells of the Connection's Counters have the same
\* derived name.
C9_EndToEndOfDistinctNames ==
    (last_send.has /\ last_send.entry.g_solo /\ last_send.entry.g_pure
       /\ last_send.entry.g_seq = Len(deq) + Len(snaps)
       /\ Cardinality(DOMAIN last_send.entry.g_due) = last_send.entry.g_cells)
      => EndToEnd

\* C10: entries leave the queue in the order they entered it, one per
\* Sender cycle, and every datagram of an entry is written before any
\* datagram of an entry enqueued after it.
C10_Fifo ==
    /\ deq = [i \in 1..Len(deq) |-> i]
    /\ [i \in 1..Len(snaps) |-> snaps[i].g_seq] = [i \in 1..Len(snaps) |-> Len(deq) + i]
    /\ \A i, j \in 1..Len(sock) : i < j => sock[i].g_seq <= sock[j].g_seq

\* C10 witness: two entries were sent while a third waited, one of them in
\* more than one datagram
C10_Witness ==
    /\ Len(deq) >= 2
    /\ last_send.qlen >= 1
    /\ \E i, j \in 1..Len(sock) : sock[i].g_seq # sock[j].g_seq
    /\ \E i, j \in 1..Len(sock) : i # j /\ sock[i].g_seq = sock[j].g_seq

-----------------------------------------------------------------------------
(* Properties of the calls on one Counter.                                 *)

\* the value of a cell, 0.0 when it was never referenced
CellValue(counts, cell) == IF cell \in DOMAIN counts THEN counts[cell] ELSE 0

\* every argument is a string and every value a number
ValidCall(args, kwargs) ==
    /\ \A i \in 1..Len(args) : args[i].ok
    /\ \A j \in 1..Len(kwargs) : kwargs[j].ok

\* the cells of Counter k are all of one stat
OneStat(k) == Cardinality({ c[2] : c \in DOMAIN ctrs[k].counts }) <= 1

\* what C12 states of one step: a valid set_exact() makes the unqualified
\* cell of each stat the value given and leaves the other cells alone, a
\* valid record() adds to it, and a snapshot() of a Counter that meets
\* when(k) reports the cell's value under the unqualified name
SetExactThenRecord(when(_)) ==
    \A k \in 1..Len(ctrs) :
       /\ \A kwargs \in KwargsMenu :
             (ValidCall(<<>>, kwargs) /\ SetExact(k, kwargs)) =>
                /\ \A j \in 1..Len(kwargs) :
                      CellValue(ctrs'[k].counts, <<Unqualified, kwargs[j].stat>>) = kwargs[j].v
                /\ \A c \in DOMAIN ctrs'[k].counts :
                      \/ \E j \in 1..Len(kwargs) : c = <<Unqualified, kwargs[j].stat>>
                      \/ c \in DOMAIN ctrs[k].counts /\ ctrs'[k].counts[c] = ctrs[k].counts[c]
       /\ \A args \in ArgsMenu, kwargs \in KwargsMenu :
             (ValidCall(args, kwargs) /\ Record(k, args, kwargs)) =>
                \A j \in 1..Len(kwargs) :
                   CellValue(ctrs'[k].counts, <<Unqualified, kwargs[j].stat>>)
                     = CellValue(ctrs[k].counts, <<Unqualified, kwargs[j].stat>>) + kwargs[j].v
       /\ (when(k) /\ Snapshot(k)) =>
             \A c \in DOMAIN ctrs[k].counts :
                c[1] = Unqualified =>
                   LET n == derived_name(ctrs[k].category, Unqualified, c[2])
                   IN n \in DOMAIN ret'[k].totals /\ ret'[k].totals[n] = ctrs[k].counts[c]

\* C12: set_exact() overwrites the unqualified cell of each stat given and
\* leaves every other cell unchanged, and record() adds to it: after any
\* calls on one stat the next snapshot() reports, for the unqualified name,
\* the value of the last set_exact() plus what was recorded after it.
C12_SetExactOverwrites == [][SetExactThenRecord(OneStat)]_vars

\* C12 holds of the Counters whose cells have distinct derived names.
C12_OverwritesOfDistinctNames == [][SetExactThenRecord(DistinctNames)]_vars

\* the specifics of a call are distinct strings, none of them the
\* unqualified name
DistinctSpecifics(args) ==
    /\ \A i \in 1..Len(args) : args[i].ok /\ args[i].s # Unqualified
    /\ \A i, j \in 1..Len(args) : args[i].s = args[j].s => i = j

\* the value given for a stat in kwargs, 0 when the stat is not given
Given(kwargs, stat) ==
    LET js == { j \in 1..Len(kwargs) : kwargs[j].stat = stat }
    IN IF js = {} THEN 0 ELSE kwargs[CHOOSE j \in js : TRUE].v

\* C13: a valid record() with N distinct specifics adds each stat's value
\* to N + 1 cells, the cell (specific, stat) of each specific and the
\* unqualified cell ("", stat), once each, and changes no other cell; so
\* the unqualified cell holds the sum over all the calls and the cell of a
\* specific the sum over the calls that name it.
C13_RecordAddsToEachCell ==
    [][ \A k \in 1..Len(ctrs), args \in ArgsMenu, kwargs \in KwargsMenu :
          (ValidCall(args, kwargs) /\ DistinctSpecifics(args) /\ Record(k, args, kwargs)) =>
             LET named == { args[i].s : i \in 1..Len(args) } \cup {Unqualified}
                 touched == { <<sp, kwargs[j].stat>> : sp \in named, j \in 1..Len(kwargs) }
             IN /\ Cardinality(touched) = (Len(args) + 1) * Len(kwargs)
                /\ DOMAIN ctrs'[k].counts = DOMAIN ctrs[k].counts \cup touched
                /\ \A c \in DOMAIN ctrs'[k].counts :
                      ctrs'[k].counts[c] =
                         CellValue(ctrs[k].counts, c)
                           + (IF c \in touched THEN Given(kwargs, c[2]) ELSE 0)
      ]_vars

\* C13 witness: after a record() naming one specific and a record() naming
\* another, the unqualified cell holds the sum of both and each specific's
\* cell the value of its own call
C13_Witness ==
    \E k \in 1..Len(ctrs) :
       /\ pure[k]
       /\ DOMAIN ctrs[k].counts =
             { <<Unqualified, Str(<<"f">>)>>, <<Str(<<"s">>), Str(<<"f">>)>>,
               <<Str(<<"!">>), Str(<<"f">>)>> }
       /\ ctrs[k].counts[<<Unqualified, Str(<<"f">>)>>] = 2
       /\ ctrs[k].counts[<<Str(<<"s">>), Str(<<"f">>)>>] = 1
       /\ ctrs[k].counts[<<Str(<<"!">>), Str(<<"f">>)>>] = 1

\* record() reaches the places (specific, stat) of a call one by one, the
\* specifics in the order given with the unqualified name last, and under
\* each specific the stats in the order of the map: the specific and the
\* stat of the p-th place
PlaceSpecific(args, kwargs, p) ==
    (args \o <<[ok |-> TRUE, s |-> Unqualified]>>)[((p - 1) \div Len(kwargs)) + 1]

PlaceStat(kwargs, p) == kwargs[((p - 1) % Len(kwargs)) + 1]

\* the places before the first one whose specific is not a string or
\* whose value is not a number
PlacesBeforeInvalid(args, kwargs) ==
    { p \in 1..((Len(args) + 1) * Len(kwargs)) :
        \A q \in 1..p : PlaceSpecific(args, kwargs, q).ok /\ PlaceStat(kwargs, q).ok }

\* C14: record() and set_exact() raise nothing to their caller; record()
\* applies the places it reaches before the first specific that is not a
\* string or the first value that is not a number, keeps these updates and
\* applies nothing after; set_exact() likewise sets the stats before the
\* first value that is not a number.  So when the first specific or the
\* first value is not valid, no cell changes.
C14_InvalidInputSwallowed ==
    [][ \A k \in 1..Len(ctrs), kwargs \in KwargsMenu :
          /\ \A args \in ArgsMenu :
                Record(k, args, kwargs) =>
                   LET done == PlacesBeforeInvalid(args, kwargs)
                       cell(p) == <<PlaceSpecific(args, kwargs, p).s, PlaceStat(kwargs, p).stat>>
                       added(c) == SumOver({ p \in done : cell(p) = c },
                                           [p \in done |-> PlaceStat(kwargs, p).v])
                   IN /\ ~caller'.raised
                      /\ DOMAIN ctrs'[k].counts
                            = DOMAIN ctrs[k].counts \cup { cell(p) : p \in done }
                      /\ \A c \in DOMAIN ctrs'[k].counts :
                            ctrs'[k].counts[c] = CellValue(ctrs[k].counts, c) + added(c)
                      /\ ((~ValidCall(<<>>, <<kwargs[1]>>)) \/ (args # <<>> /\ ~args[1].ok))
                            => ctrs'[k].counts = ctrs[k].counts
          /\ SetExact(k, kwargs) =>
                LET done == { j \in 1..Len(kwargs) : \A q \in 1..j : kwargs[q].ok }
                IN /\ ~caller'.raised
                   /\ DOMAIN ctrs'[k].counts
                         = DOMAIN ctrs[k].counts
                             \cup { <<Unqualified, kwargs[j].stat>> : j \in done }
                   /\ \A c \in DOMAIN ctrs'[k].counts :
                         ctrs'[k].counts[c] =
                            IF \E j \in done : c = <<Unqualified, kwargs[j].stat>>
                            THEN Given(kwargs, c[2]) ELSE ctrs[k].counts[c]
                   /\ ~kwargs[1].ok => ctrs'[k].counts = ctrs[k].counts
      ]_vars

\* C14 witness: a record() whose second value is not a number has
\* returned, having added the first value under the specific and nothing
\* under the unqualified name
C14_Witness ==
    \E k \in 1..Len(ctrs) :
       /\ caller = [op |-> "record", raised |-> FALSE]
       /\ ~pure[k]
       /\ DOMAIN ctrs[k].counts = { <<Str(<<"s">>), Str(<<"g">>)>> }
       /\ ctrs[k].counts[<<Str(<<"s">>), Str(<<"g">>)>>] = 1

\* Connection o yields data: one of its Counters holds a cell
Yields(o) == \E k \in Range(conns[o].counters) : DOMAIN ctrs[k].counts # {}

\* the derived names of the cells of the Counters of Connection o
NamesOfConn(o) ==
    { derived_name(ctrs[k].category, c[1], c[2]) :
        k \in Range(conns[o].counters), c \in UNION { DOMAIN ctrs[j].counts : j \in 1..Len(ctrs) } }

\* C11: a Collector cycle adds to the queue one entry (integer time, flat
\* mapping of the derived names of the Connection's cells, Connection) for
\* each registered Connection that yields data, however many Counters it
\* has, and none for a Connection that yields none; where no Connection
\* yields data (no Connection, no Counter, or Counters never recorded to)
\* the queue is not added to; and no Counter leaves its Connection.
C11_OneEntryPerYieldingConnection ==
    [][ /\ Len(snaps') > Len(snaps) =>
             /\ SubSeq(snaps', 1, Len(snaps)) = snaps
             /\ \A o \in Registered :
                   Cardinality({ i \in (Len(snaps) + 1)..Len(snaps') : snaps'[i].conn = o })
                     = IF Yields(o) THEN 1 ELSE 0
             /\ \A i \in (Len(snaps) + 1)..Len(snaps') :
                   /\ snaps'[i].conn \in Registered
                   /\ snaps'[i].when \in Int
                   /\ DOMAIN snaps'[i].stats \subseteq NamesOfConn(snaps'[i].conn)
                   /\ DOMAIN snaps'[i].stats # {}
                   /\ \A n \in DOMAIN snaps'[i].stats : snaps'[i].stats[n] \in Int
        /\ (\A o \in Registered : ~Yields(o)) => Len(snaps') <= Len(snaps)
        /\ \A o \in 1..Len(conns) :
              \A n \in DOMAIN conns[o].counters :
                 /\ n \in DOMAIN conns'[o].counters
                 /\ conns'[o].counters[n] = conns[o].counters[n]
      ]_vars

\* C11 witness: of two registered Connections, the one with two Counters
\* that were recorded to has one entry in the queue, with names of both
\* Counters, and the one whose Counter was never recorded to has none and
\* keeps its Counter
C11_Witness ==
    \E a, b \in Registered :
       /\ ncycles >= 1 /\ Len(snaps) = 1 /\ deq = <<>>
       /\ snaps[1].conn = a
       /\ Cardinality(DOMAIN snaps[1].stats) >= 2
       /\ Cardinality({ k \in Range(conns[a].counters) : DOMAIN ctrs[k].counts # {} }) = 2
       /\ b # a

-----------------------------------------------------------------------------
(* Properties of the Counter's methods under concurrent calls.             *)

\* the threads inside a method of Counter k
Inside(k) == { t \in Threads : th[t].pc \in {"record", "set_exact", "snapshot"}
                                 /\ th[t].ctr = k }

\* C1: at most one thread is inside a method of a Counter at a time, and
\* what a snapshot() returns after valid record() calls alone is, name by
\* name, the sum of what the record() calls ended since the previous
\* snapshot added: no call is seen half applied, and every increment is
\* reported by exactly one snapshot.
C1_AtomicCalls ==
    \A k \in 1..Len(ctrs) :
       /\ Cardinality(Inside(k)) <= 1
       /\ (ret[k].has /\ ret[k].pure) => ret[k].totals = ret[k].due

\* C1 holds of the Counters whose cells have distinct derived names.
C1_AtomicCallsOfDistinctNames ==
    \A k \in 1..Len(ctrs) :
       /\ Cardinality(Inside(k)) <= 1
       /\ (ret[k].has /\ ret[k].pure /\ DistinctNames(k)) => ret[k].totals = ret[k].due

\* a snapshot() returned what record() calls of two threads had added,
\* while another call waits for the Counter's lock
C1_Reached ==
    \E k \in 1..Len(ctrs) :
       /\ ret[k].has /\ ret[k].pure /\ DistinctNames(k)
       /\ \E n \in DOMAIN ret[k].totals : ret[k].totals[n] >= 2
       /\ Inside(k) # {}

-----------------------------------------------------------------------------
(* Properties of the Connection registry under concurrent lookups.         *)

\* C3: two lookups return the same Connection object if and only if their
\* identity tuples are equal, whatever the threads that made them and
\* however their calls interleaved.
C3_OneInstancePerIdentity ==
    \A p, q \in looked : (p.id = q.id) <=> (p.conn = q.conn)

\* C3 witness: two threads looked the same identity up and got one object,
\* and a lookup of an identity differing in one field got another
C3_Witness ==
    \E p, q, r \in looked :
       /\ p.t # q.t /\ p.id = q.id /\ p.conn = q.conn
       /\ \/ r.id = [p.id EXCEPT !.collectd_port = r.id.collectd_port]
          \/ r.id = [p.id EXCEPT !.plugin_inst = r.id.plugin_inst]
       /\ r.id # p.id /\ r.conn # p.conn

\* C4: once conn.<name> has returned a Counter, the Connection's counter
\* set holds that Counter under that name ever after (so every later
\* conn.<name> returns it and the Connection's snapshot reaches it).
C4_CounterCached ==
    \A g \in given :
       /\ g.name \in DOMAIN conns[g.conn].counters
       /\ conns[g.conn].counters[g.name] = g.ctr

\* C4 holds of the Connections on which one thread alone ran the body of
\* __init__.
C4_CachedWhereInitRanOnce ==
    \A g \in given :
       Cardinality({ t \in Threads : <<g.conn, t>> \in inits }) <= 1
         => /\ g.name \in DOMAIN conns[g.conn].counters
            /\ conns[g.conn].counters[g.name] = g.ctr

-----------------------------------------------------------------------------
(* Properties of messages().                                               *)

PkStart == message_start(pk_args.when, pk_args.host, pk_args.plugin_inst,
                         pk_args.plugin_name)

PkField(i) == pack_value(pk_counts[i][1], pk_counts[i][2])

\* the i-th entry's value field fits in a packet beside the header
PkFits(i) == ByteLen(PkStart) + ByteLen(PkField(i)) <= MAX_PACKET_SIZE

PkFitting == { i \in 1..Len(pk_counts) : PkFits(i) }

\* the value fields of the fitting entries, in the input's iteration order
RECURSIVE PkFitFields(_)
PkFitFields(i) ==
    IF i > Len(pk_counts) THEN <<>>
    ELSE (IF PkFits(i) THEN PkField(i) ELSE <<>>) \o PkFitFields(i + 1)

\* the value fields of the buffers k.., concatenated in buffer order
RECURSIVE PkSentFields(_)
PkSentFields(k) ==
    IF k > Len(pk_result.packets) THEN <<>>
    ELSE ValueFields(pk_result.packets[k]) \o PkSentFields(k + 1)

HeaderCodes ==
    <<TYPE_HOST, TYPE_TIME, TYPE_PLUGIN, TYPE_PLUGIN_INSTANCE, TYPE_TYPE, TYPE_INTERVAL>>

\* C5: every buffer messages() returns is at most MAX_PACKET_SIZE bytes
\* long, begins with the header of the call (host, time, plugin, plugin
\* instance, type, interval) and holds at least one value field; an empty
\* map, or one none of whose value fields fits, yields no buffer.
C5_BuffersBounded ==
    pk_pc = "done" =>
      /\ \A k \in 1..Len(pk_result.packets) :
           LET b == pk_result.packets[k] IN
             /\ ByteLen(b) <= MAX_PACKET_SIZE
             /\ Len(b) >= 6 + 2
             /\ SubSeq(b, 1, 6) = PkStart
             /\ [i \in 1..6 |-> b[i].code] = HeaderCodes
             /\ b[7].code = TYPE_TYPE_INSTANCE
             /\ b[8].code = TYPE_VALUES
      /\ (PkFitting = {} => pk_result.packets = <<>>)

\* C5 witness: a call that returned two buffers, the first full to the byte
C5_Witness ==
    /\ pk_pc = "done"
    /\ Len(pk_result.packets) = 2
    /\ ByteLen(pk_result.packets[1]) = MAX_PACKET_SIZE

\* C6: the value fields of the returned buffers, in buffer order, are the
\* fitting value fields in the input's iteration order (none dropped, none
\* duplicated).
C6_AllFittingPlaced ==
    pk_pc = "done" => PkSentFields(1) = PkFitFields(1)

\* C6 holds of every call that returns (struct raised nothing).
C6_PlacedWhenReturned ==
    (pk_pc = "done" /\ ~pk_result.raised) => PkSentFields(1) = PkFitFields(1)

\* C7: messages() raises nothing, and drops exactly the stats that do not
\* fit beside the header, whatever the length of their names: only such
\* stats yield no buffer; one small stat beside them yields one buffer
\* holding the small stat alone.
C7_OversizeDropped ==
    pk_pc = "done" =>
      /\ ~pk_result.raised
      /\ (PkFitting = {} => pk_result.packets = <<>>)
      /\ \A i \in PkFitting :
           (PkFitting = {i} /\ StrLen(pk_counts[i][1]) = 1)
             => pk_result.packets = << PkStart \o PkField(i) >>

\* C7 holds where no name's length overflows struct format "H", or where
\* struct masks the overflow.
C7_DroppedWhenReturned ==
    (pk_pc = "done" /\ ~pk_result.raised) =>
      /\ (PkFitting = {} => pk_result.packets = <<>>)
      /\ \A i \in PkFitting :
           (PkFitting = {i} /\ StrLen(pk_counts[i][1]) = 1)
             => pk_result.packets = << PkStart \o PkField(i) >>

\* every entry's value field has the same length
PkEqualSized ==
    \A i, j \in 1..Len(pk_counts) : ByteLen(PkField(i)) = ByteLen(PkField(j))

\* C8: packing is greedy: the first value field of a buffer did not fit in
\* the buffer before it.  Hence two entries with names of half the packet
\* size, each fitting beside the header, come in two buffers of one entry
\* each, and one more equal-sized fitting entry than a packet holds beside
\* the header comes in exactly two buffers.
C8_Greedy ==
    pk_pc = "done" =>
      /\ \A k \in 1..(Len(pk_result.packets) - 1) :
           ByteLen(pk_result.packets[k])
             + ByteLen(SubSeq(pk_result.packets[k + 1], 7, 8)) > MAX_PACKET_SIZE
      /\ ( /\ Len(pk_counts) = 2
           /\ \A i \in 1..2 : StrLen(pk_counts[i][1]) = MAX_PACKET_SIZE \div 2 /\ PkFits(i) )
          => /\ Len(pk_result.packets) = 2
             /\ \A k \in 1..2 : pk_result.packets[k] = PkStart \o PkField(k)
      /\ ( /\ Len(pk_counts) >= 1
           /\ PkEqualSized
           /\ PkFits(1)
           /\ Len(pk_counts) =
                (MAX_PACKET_SIZE - ByteLen(PkStart)) \div ByteLen(PkField(1)) + 1 )
          => Len(pk_result.packets) = 2

\* C8 witness: three equal entries, two of which fill the first buffer
C8_Witness ==
    /\ pk_pc = "done"
    /\ Len(pk_counts) = 3
    /\ PkEqualSized
    /\ Len(pk_result.packets) = 2
    /\ Len(pk_result.packets[1]) = 6 + 4
    /\ Len(pk_result.packets[2]) = 6 + 2

-----------------------------------------------------------------------------
(* Properties of sanitize().                                               *)

\* the characters of a string, one by one
RECURSIVE Chars(_)
Chars(s) ==
    IF s = <<>> THEN <<>>
    ELSE [i \in 1..Head(s)[2] |-> Head(s)[1]] \o Chars(Tail(s))

\* the alphanumeric characters of a sequence of characters, in their order
AlnumsOf(c) == SelectSeq(c, LAMBDA x : x \in Alnum)

\* the places of c where a maximal run of characters that are not
\* alphanumeric begins, an alphanumeric character standing somewhere
\* before the run and somewhere after it
InnerRuns(c) ==
    { i \in 2..Len(c) :
        /\ c[i] \notin Alnum /\ c[i - 1] \in Alnum
        /\ \E j \in (i + 1)..Len(c) : c[j] \in Alnum }

\* C18: sanitize maps every maximal run of characters that are not
\* alphanumeric to one "_" and trims the "_" at both ends: the result holds
\* only letters, digits and "_", neither starts nor ends with "_", never
\* holds "__", keeps the alphanumeric characters in their order, and
\* sanitizing it again changes nothing; the name derived for an empty
\* specific is sanitize(category) + "-" + sanitize(stat), with no doubled
\* separator.
C18_Sanitize ==
    sn_pc = "done" =>
      LET c == Chars(sn_in.s)
          r == Chars(sn_out.s)
          n == Chars(sn_out.name)
      IN /\ \A i \in 1..Len(r) : r[i] \in Alnum \cup {"_"}
         /\ r # <<>> => (r[1] # "_" /\ r[Len(r)] # "_")
         /\ \A i \in 1..(Len(r) - 1) : ~(r[i] = "_" /\ r[i + 1] = "_")
         /\ AlnumsOf(r) = AlnumsOf(c)
         /\ Cardinality({ i \in 1..Len(r) : r[i] = "_" }) = Cardinality(InnerRuns(c))
         /\ \A i \in InnerRuns(c) :
               r[Len(AlnumsOf(SubSeq(c, 1, i)))
                 + Cardinality({ j \in InnerRuns(c) : j <= i })] = "_"
         /\ sn_out.again = sn_out.s
         /\ n = Chars(sanitize(sn_in.category)) \o <<"-">> \o Chars(sanitize(sn_in.stat))
         /\ \A i \in 1..(Len(n) - 1) : ~(n[i] = "-" /\ n[i + 1] = "-")

\* C18 witness: a string whose inner run of several characters became one
\* "_" and whose outer runs were trimmed, and a name derived from a
\* category and a stat that both needed sanitizing
C18_Witness ==
    /\ sn_pc = "done"
    /\ Chars(sn_in.s) = <<"_", "a", "-", "!", "Z">>
    /\ Chars(sn_out.s) = <<"a", "_", "Z">>
    /\ Chars(sn_out.name) = <<"f", "_", "g", "-", "f", "_", "g">>

-----------------------------------------------------------------------------
(* Properties of start_threads() and daemonize().                          *)

\* the tasks that run func
TasksOf(func) == { i \in 1..Len(tasks) : tasks[i].func = func }

\* the calls of start_threads() that returned
Started == { i \in 1..Len(starts) : ~starts[i].raised }

\* C15: the pipeline starts at most once: however many calls of
\* start_threads() there are, one after the other or at once, there is at
\* most one Collector task and one Sender task, at most one call returns,
\* and a call that raised spawned nothing: the tasks are those of the one
\* call that got the Semaphore.
C15_StartsAtMostOnce ==
    /\ Cardinality(TasksOf("take_snapshots")) <= 1
    /\ Cardinality(TasksOf("send_stats")) <= 1
    /\ Len(tasks) <= 2
    /\ Cardinality(Started) <= 1
    /\ Len(tasks) > 0 => single_start = 0
    /\ Cardinality(Started) + Cardinality(Starting) <= 1

\* three calls have ended, one by returning and two by raising, two of
\* them made at once, and the two tasks run
C15_Witness ==
    /\ Len(starts) = 3
    /\ Cardinality(Started) = 1
    /\ { starts[i].t : i \in 1..Len(starts) } = Threads
    /\ starts[1].raised
    /\ Cardinality(TasksOf("take_snapshots")) = 1
    /\ Cardinality(TasksOf("send_stats")) = 1
    /\ \E i \in 1..Len(tasks) : tasks[i].failed

-----------------------------------------------------------------------------
(* Properties of send_stats() on the empty queue.                          *)

\* C17: a Sender cycle on an empty queue sends no datagram and changes
\* nothing of the queue, the socket, the clock, the registry, the
\* Connections and the Counters; it raises Empty exactly when
\* raise_on_empty is set; and a cycle on a non-empty queue does not raise
\* Empty.
C17_SenderOnEmptyQueue ==
    [][\A raise_on_empty \in BOOLEAN :
         SendStats(raise_on_empty) =>
            IF snaps = <<>>
            THEN /\ UNCHANGED <<objVars, pipeVars>>
                 /\ last_send'.sent = <<>>
                 /\ last_send'.empty
                 /\ last_send'.raised = raise_on_empty
            ELSE ~last_send'.empty]_vars

\* a cycle sent a datagram, a later one raised for another reason, and
\* the last one found the queue empty and raised Empty
C17_Witness ==
    /\ last_send.empty
    /\ last_send.raised
    /\ snaps = <<>>
    /\ sock # <<>>
    /\ Len(deq) > Cardinality({ sock[i].g_seq : i \in 1..Len(sock) })

-----------------------------------------------------------------------------
(* Properties of what snapshot() emits for the cells that hold 0.          *)

\* the derived names of the cells the Counters of Connection o hold
CellNamesOfConn(o) ==
    UNION { { derived_name(ctrs[k].category, c[1], c[2]) : c \in DOMAIN ctrs[k].counts }
              : k \in Range(conns[o].counters) }

\* every cell of Connection o with the derived name n holds 0
ZeroNamed(o, n) ==
    \A k \in Range(conns[o].counters) : \A c \in DOMAIN ctrs[k].counts :
       derived_name(ctrs[k].category, c[1], c[2]) = n => ctrs[k].counts[c] = 0

\* C19 as stated: a cell that holds 0 is omitted, so no entry of the
\* queue holds a name with the value 0.
C19_ZeroCellsOmitted ==
    \A i \in 1..Len(snaps) : \A n \in DOMAIN snaps[i].stats : snaps[i].stats[n] # 0

\* C19, amended: snapshot() emits every cell the Counter ever referenced,
\* with 0 for a cell that holds 0: a Collector cycle enqueues, for every
\* Connection one of whose Counters holds a cell, an entry with the
\* derived names of all the cells of its Counters, 0 for every name
\* whose cells hold 0, whether or not there was an update since the
\* cycle before.
C19_EveryCellEmitted ==
    [][ncycles' # ncycles =>
          \A o \in Registered :
             Yields(o) =>
                \E i \in (Len(snaps) + 1)..Len(snaps') :
                   /\ snaps'[i].conn = o
                   /\ DOMAIN snaps'[i].stats = CellNamesOfConn(o)
                   /\ \A n \in CellNamesOfConn(o) :
                         ZeroNamed(o, n) => snaps'[i].stats[n] = 0]_vars

\* the second cycle enqueued an entry for a Connection that had no update
\* since the first: every name of its cells with 0
C19_Witness ==
    /\ ncycles = 2
    /\ \E i \in 1..Len(snaps) :
          /\ DOMAIN snaps[i].stats # {}
          /\ DOMAIN snaps[i].stats = CellNamesOfConn(snaps[i].conn)
          /\ \A n \in DOMAIN snaps[i].stats : snaps[i].stats[n] = 0
          /\ \A k \in 1..Len(pure) : pure[k]

-----------------------------------------------------------------------------
(* Properties of the registry as the Collector sees it.                    *)

\* Connection o has its own lock and its counter mapping
Initialised(o) == {"_lock", "_counters"} \subseteq conns[o].attrs

\* the Collector tasks
Collectors == TasksOf("take_snapshots")

\* No Collector cycle ends by raising.
C20_CycleCompletes == \A i \in Collectors : tasks[i].pc # "except"

\* C20: every Connection in the registry is initialised, and so no
\* Collector cycle raises, whatever Connection is being created while it
\* runs.
C20_RegistryInitialised ==
    /\ \A o \in Registered : Initialised(o)
    /\ C20_CycleCompletes

\* A Collector cycle raised on a Connection that is being created and left
\* out a Connection that has data.
C20_SkippedByFailedCycle ==
    \E i \in Collectors :
       /\ tasks[i].pc = "except"
       /\ \E j \in 1..Len(tasks[i].loc.skipped) :
             /\ Initialised(tasks[i].loc.skipped[j])
             /\ Yields(tasks[i].loc.skipped[j])

-----------------------------------------------------------------------------
(* Properties of what snapshot() returns for the cells it resets.         *)

\* the cells of counts whose derived name is n
CellsNamed(category, counts, n) ==
    { c \in DOMAIN counts : derived_name(category, c[1], c[2]) = n }

\* the mapping that accounts for every cell of counts: each derived name
\* with the sum of the cells that have it
SumByName(category, counts) ==
    [n \in { p.name : p \in CellNames(category, counts) } |->
       SumOver(CellsNamed(category, counts, n), counts)]

\* C21: snapshot() resets no cell without reporting its value: the mapping
\* it returns holds, for every derived name, the sum of the cells of that
\* name that it resets to 0.0, also when two cells have the same name.
C21_SnapshotAccountsForEveryCell ==
    [][\A k \in 1..Len(ctrs) :
          Snapshot(k) =>
             /\ ctrs'[k].counts = ResetCounts(ctrs[k].counts)
             /\ ret'[k].totals = SumByName(ctrs[k].category, ctrs[k].counts)]_vars

\* C21 holds of the snapshots of the Counters whose cells have distinct
\* derived names.
C21_AccountsOfDistinctNames ==
    [][\A k \in 1..Len(ctrs) :
          (Snapshot(k) /\ DistinctNames(k)) =>
             /\ ctrs'[k].counts = ResetCounts(ctrs[k].counts)
             /\ ret'[k].totals = SumByName(ctrs[k].category, ctrs[k].counts)]_vars

\* A snapshot() has reset a cell whose value is in no entry of the mapping
\* it returned: less was returned than had been recorded.
C21_ValueLost ==
    \E k \in 1..Len(ret) :
       /\ ret[k].has /\ ret[k].pure
       /\ \E n \in DOMAIN ret[k].due : ret[k].totals[n] < ret[k].due[n]

-----------------------------------------------------------------------------
(* Properties of the locks: the order in which they are nested, and the    *)
(* threads that wait for them.                                             *)

\* the callers and the daemon threads
AllThreads == 1..(NumThreads + MaxTasks)

\* the lock thread t is about to take or waits for, 0 if none: a caller at
\* "lock", the Collector before conn._snapshot() and before c.snapshot()
Wants(t) ==
    IF t \in Threads
    THEN IF th[t].pc = "lock" THEN th[t].lock ELSE 0
    ELSE LET i == t - NumThreads IN
         IF i > Len(tasks) THEN 0
         ELSE IF tasks[i].pc = "next_conn" /\ tasks[i].loc.todo # <<>>
              THEN SelfLock(conns[Head(tasks[i].loc.todo)])
         ELSE IF /\ tasks[i].pc = "counter"
                 /\ tasks[i].loc.ctodo # <<>>
                 /\ DOMAIN ctrs[Head(tasks[i].loc.ctodo)].counts # {}
              THEN ctrs[Head(tasks[i].loc.ctodo)].lock
         ELSE 0

\* the locks thread t holds
Holds(t) == { l \in 1..Len(locks) : locks[l].owner = t }

\* the domain of a lock: 0 for the registry lock Connection._lock, 2 for
\* the lock of a Counter, 1 for the lock of a Connection
Rank(l) ==
    IF l = 1 THEN 0
    ELSE IF \E k \in 1..Len(ctrs) : ctrs[k].lock = l THEN 2
    ELSE 1

\* a thread that takes a lock holds only locks of the domains before it
\* (or that lock itself, an RLock)
LockOrder ==
    \A t \in AllThreads :
       Wants(t) # 0 =>
          \A h \in Holds(t) : h = Wants(t) \/ Rank(h) < Rank(Wants(t))

\* record() and set_exact() hold the Counter's lock alone, __getattr__
\* the Connection's lock alone, __new__ the registry lock alone, and a
\* caller in no method holds no lock
HeldByCaller ==
    \A t \in Threads :
       /\ th[t].pc \in {"record", "set_exact"} => Holds(t) = {ctrs[th[t].ctr].lock}
       /\ th[t].pc \in {"ga", "ga_create", "ga_return"} =>
             Holds(t) = {th[t].lk} /\ Rank(th[t].lk) = 1
       /\ th[t].pc \in {"new", "new_insert", "new_return"} => Holds(t) = {1}
       /\ th[t].pc \in {"idle", "lock", "init", "init_lock", "init_counters",
                        "init_rest", "start_collector", "start_sender"} =>
             Holds(t) = {}

\* inside _snapshot() a daemon thread holds the one lock it entered it
\* under, and no lock outside
HeldByTask ==
    \A i \in 1..Len(tasks) :
       Holds(TaskThread(i)) =
          IF tasks[i].pc \in {"snapshot", "counter"} THEN {tasks[i].loc.lk} ELSE {}

\* the lock the Collector holds while it takes the locks of the Counters
\* is the lock of a Connection
CollectorHoldsConnectionLock ==
    \A i \in 1..Len(tasks) :
       (tasks[i].pc = "counter" /\ Wants(TaskThread(i)) # 0) => Rank(tasks[i].loc.lk) = 1

\* thread t waits for a lock another thread holds
Blocked(t) == Wants(t) # 0 /\ ~CanAcquire(locks[Wants(t)], t)

\* the thread that t waits for, 0 if none
WaitsOn(t) == IF Blocked(t) THEN locks[Wants(t)].owner ELSE 0

\* the thread reached from t by n steps of WaitsOn
RECURSIVE Hop(_, _)
Hop(t, n) == IF n = 0 \/ t = 0 THEN t ELSE Hop(WaitsOn(t), n - 1)

\* no threads wait on each other in a cycle
NoCyclicWait ==
    \A t \in AllThreads : \A n \in 1..Cardinality(AllThreads) : Hop(t, n) # t

\* every thread that requests a lock acquires it
EveryRequestServed == \A t \in AllThreads : []<>(Wants(t) = 0)

\* C22: the three lock domains never deadlock: the locks are only nested
\* in the order registry lock, Connection lock, Counter lock (the
\* Collector holds a Connection's lock while it takes each Counter's lock,
\* record and set_exact hold the Counter's lock alone, __getattr__ the
\* Connection's lock alone), no threads wait on each other in a cycle, and
\* every thread that requests a lock eventually acquires it.
C22_LockDomains ==
    /\ [](LockOrder /\ HeldByCaller /\ HeldByTask /\ CollectorHoldsConnectionLock)
    /\ []NoCyclicWait
    /\ EveryRequestServed

\* What holds of C22: the locks are nested in the order of the domains, no
\* threads wait on each other in a cycle and every request is served; the
\* lock the Collector holds while it takes the Counters' locks can be the
\* registry lock.
C22_NoDeadlock ==
    /\ [](LockOrder /\ HeldByCaller /\ HeldByTask /\ NoCyclicWait)
    /\ EveryRequestServed

\* The Collector holds the lock of a Connection and waits for the lock of
\* one of its Counters, which a caller inside record() or set_exact()
\* holds, while the other caller waits for a lock too.
C22_NestedWait ==
    \E i \in 1..Len(tasks), t \in Threads :
       /\ tasks[i].pc = "counter"
       /\ Rank(tasks[i].loc.lk) = 1
       /\ Blocked(TaskThread(i))
       /\ WaitsOn(TaskThread(i)) = t
       /\ th[t].pc \in {"record", "set_exact"}
       /\ \E u \in Threads \ {t} : th[u].pc = "lock"

\* The Collector holds the registry lock, taken in place of the lock of a
\* Connection that had none yet, and waits for the lock of a Counter that a
\* caller holds.
C22_RegistryThenCounter ==
    \E i \in 1..Len(tasks) :
       /\ tasks[i].pc = "counter"
       /\ tasks[i].loc.lk = 1
       /\ Blocked(TaskThread(i))

=============================================================================
